---- MODULE Spec2Model ----
(***************************************************************************)
(* Room engine of the drawing-and-guessing server                          *)
(* (backend/realtime/consumers.py) and the HTTP join flow                  *)
(* (backend/realtime/views.py).  One room, its members, the server         *)
(* processes that host their sockets, the shared KV store and the DB.      *)
(*                                                                         *)
(* Every coroutine (a consumer's message handler, a round_timer task, a    *)
(* mark_inactive_later task, a kick_timeout task) is a thread with a       *)
(* program counter.  A step of a thread is the synchronous code between    *)
(* two suspension points of the asyncio event loop; KV and DB operations   *)
(* take effect atomically at the step that issues them.  A consumer        *)
(* handles one message at a time, so a socket is one thread.               *)
(* The per-process GameState object (ROOM_STATES[code]) is shared by all   *)
(* threads of a process; load_state_from_redis overwrites it in place.     *)
(* A load outside state_lock may be applied at once or after other steps   *)
(* (the GET is served, the coroutine is resumed later).                    *)
(*                                                                         *)
(* Left out: expiry of the room lock and of the KV keys, KV failures.      *)
(* Chat rate limiting is kept apart from the room engine (ChatSpec), so    *)
(* are the GameState document (CodecSpec) and the room lifecycle and       *)
(* invite views (CleanSpec, DbSpec, JoinSpec).  The local asyncio lock and *)
(* the KV lock are                                                         *)
(* one lock.  Time is logical: started_at is a counter, the seconds_left   *)
(* of a timer pass is chosen freely, and a sleeping task may wake at any   *)
(* step.  The locked sections of connect, disconnect, the grace task and   *)
(* the kick handlers other than handle_kick_request are one step each.     *)
(***************************************************************************)
EXTENDS Integers, FiniteSets, Sequences, TLC

\* ---------------------------------------------------------------- bounds
\* GameState.max_rounds (10 in the source), scaled down
MaxRounds == 2
\* rounds that may be started per behaviour (values of started_at)
MaxStarts == 3
\* what the environment may do in one behaviour: chat messages, start_game
\* messages, leave messages, KV replies delivered late, hint marks of the timer
Chats == 2
StartGames == 1
Leaves == 1
StaleReplies == 1
HintMarks == 1
\* kick_request and kick_vote messages
KickRequests == 1
KickVotes == 1
\* HTTP leave requests and invites into another room accepted
HttpLeaves == 1
InvitesAway == 1
\* sockets closed by their clients
Closes == 2
Rejects == 1
\* further HTTP join requests of a user whose request was answered
Rejoins == 1
\* HTTP join requests of users who left
HttpJoins == 1
\* draw and clear messages
Draws == 2
Clears == 1
\* calls of the timer-owner functions per channel, and their arguments
OwnerCalls == 2
\* passes through state_lock per consumer
LockCalls == 2
OwnerRounds == 1..2
OwnerStarts == 1..2
OwnerSeconds == {0, 30}
\* the seconds the chat clock runs
MaxChatNow == 12
\* the clock of the database moves TickMinutes at a time, up to MaxToday
TickMinutes == 5
MaxToday == 20
\* HTTP requests a worker takes
Served == 1

\* ------------------------------------------------------------ deployment
Users == {1, 2, 3}
\* MAX_PLAYERS (views.py, line 27)
MAX_PLAYERS == 8
\* DRAW_HISTORY_LIMIT (consumers.py, line 24)
DRAW_HISTORY_LIMIT == 2000
\* CHAT_WINDOW_SECONDS, CHAT_MAX_BURST, MAX_CHAT_COOLDOWN (consumers.py,
\* lines 25, 26, 30)
TIMER_OWNER_GRACE_SECONDS == 15
CHAT_WINDOW_SECONDS == 4
CHAT_MAX_BURST == 3
MAX_CHAT_COOLDOWN == 12
\* the users who ask to join the room over HTTP: they hold no membership
\* row yet
\* the channels that call the timer-owner functions: one on each process
OwnerCallers == {1, 3}
\* the consumers that enter state_lock: two on process 1, one on process 2
LockCallers == {1, 2, 3}
Joiners == {11, 12, 13}
Procs == {1, 2}
\* the sockets (channel names): 1, 2, 3 are the first sockets of the users
\* 1, 2, 3; 4 and 5 are further sockets of user 1
Sockets == {1, 2, 3, 4, 5}
UserOf(s) == IF s \in {4, 5} THEN 1 ELSE s
\* the server process that hosts a socket
ProcOf(s) == IF s \in {3, 4} THEN 2 ELSE 1
\* the round_timer task slot (state.task) of a process
TimerOf(p) == 10 + p
Timers == {TimerOf(p) : p \in Procs}
\* the mark_inactive_later task slot (state.disconnect_tasks[u]) of a process
GraceOf(p, u) == 20 * p + u
Graces == {GraceOf(p, u) : p \in Procs, u \in Users}
\* the kick_timeout task slot (state.kick_timeout_tasks[target]) of a process
KickTimerOf(p, u) == 50 + 10 * p + u
KickTimers == {KickTimerOf(p, u) : p \in Procs, u \in Users}
Threads == Sockets \cup Timers \cup Graces \cup KickTimers
\* the coroutines that may run the round code, the departure code, a load
\* outside the lock
RoundThreads == Sockets \cup Timers
DepartThreads == Sockets \cup Graces
LoadThreads == Sockets \cup Timers \cup KickTimers
Proc(t) ==
    CASE t \in Sockets -> ProcOf(t)
      [] t \in Timers -> t - 10
      [] t \in Graces -> t \div 20
      [] OTHER -> (t - 50) \div 10

None == 0
NoWord == "None"
Absent == -1
WORDS == {"sun"}
ChatTexts == WORDS \cup {"hello"}
\* a chat text that differs from a word in case only
CasedTexts == {"SUN"}

WordChars(w) ==
    CASE w = "sun" -> <<"s", "u", "n">>
      [] w = "key" -> <<"k", "e", "y">>
      [] OTHER -> <<>>

VARIABLES
    active,     \* DB: user ids whose RoomMember row has is_active = true
    kv,         \* KV room:{code}:game_state: <<>> (absent) or <<payload>>
    owner,      \* KV room:{code}:timer_owner: <<>> or <<[channel, round_index, started_at, ttl]>>
    lock,       \* holder of the room lock (None = free)
    cache,      \* per process: the in-process GameState (ROOM_STATES[code])
    fr,         \* per thread: program counter and locals
    clock,      \* logical time: the last value handed out as started_at
    quota,      \* what the environment may still do: messages per type, delayed replies, hint marks
    starts,     \* round_start envelopes broadcast
    incs,       \* commits of start_round that moved the committed round_index up by one
    ends,       \* per started_at: round_end envelopes broadcast
    awards,     \* per started_at: sequence of <<user, points>> awarded
    conns,      \* per process: the channels in state.connections
    count,      \* KV room:{code}:conn:{user}: the connection count (0 = absent)
    dtasks,     \* per process: the keys of state.disconnect_tasks
    ktasks,     \* per process: the keys of state.kick_timeout_tasks
    group,      \* channel layer: the channels in the room's group
    inbox,      \* per socket: group messages addressed to its user, not yet handled
    presence,   \* the members of the last presence broadcast: <<>> or <<set>>
    marks,      \* per user: runs of set_member_inactive by grace tasks
    joins,      \* HTTP: per user, the position of a join or invite-accept request
    Room,       \* DB table Room: per room id, <<>> (no row) or <<[is_active, empty_since]>>
    RoomMember, \* DB table RoomMember: per room id, the users whose row has is_active
    RoomInvite, \* DB table RoomInvite: per invite id, [room, to_user, status]
    today,      \* timezone.now(), in minutes
    http,       \* per HTTP worker: the position and locals of the request it serves
    canvas,     \* history: KV room:{code}:draw, the stored strokes; sent: draw and clear
                \* envelopes receive_json has sent to the group
    sender,     \* one sender on one process: chat_history, chat_penalties and
                \* chat_cooldowns of the sender, the time, the last answer of
                \* check_chat_allowed, the chats fanned out
    calls,      \* per channel: the position and locals of its call of
                \* claim_timer_owner, renew_timer_owner or release_timer_owner
    wire,       \* per socket: the round_start, game_state and round_secret
                \* envelopes handed to its client (kept where quota.wire is set)
    local_lock, \* per process: the consumer that holds ROOM_LOCKS[code], or None
    entries     \* per consumer: the position of its pass through state_lock

\* the database tables and the HTTP workers of the lifecycle and invite code
dbvars == <<Room, RoomMember, RoomInvite, today, http>>

vars == <<active, kv, owner, lock, cache, fr, clock, quota, starts, incs, ends, awards,
          conns, count, dtasks, ktasks, group, inbox, presence, marks, joins, dbvars, canvas, sender, calls, wire, local_lock, entries>>

\* ------------------------------------------------------------- GameState
\* a dict without keys
NoVotes == [u \in {} |-> {}]

GameState ==
    [status |-> "waiting", round_index |-> 0, max_rounds |-> MaxRounds,
     round_seconds |-> 120, drawer_id |-> None, word |-> NoWord,
     scores |-> [u \in Users |-> Absent], guessed |-> {}, revealed_indices |-> {},
     started_at |-> 0, last_drawer_id |-> None,
     kick_votes |-> NoVotes, kick_responses |-> NoVotes]

Range(seq) == {seq[i] : i \in 1..Len(seq)}

\* sorted(...): the elements of a set of integers in ascending order
RECURSIVE sorted(_)
sorted(S) ==
    IF S = {} THEN <<>>
    ELSE LET m == CHOOSE x \in S : \A y \in S : x <= y
         IN  <<m>> \o sorted(S \ {m})

\* str(target_id) and int(target_id) of the kick dicts
str(u) == CASE u = 1 -> "1" [] u = 2 -> "2" [] u = 3 -> "3" [] OTHER -> "0"

int(k) == CASE k = "1" -> 1 [] k = "2" -> 2 [] k = "3" -> 3 [] OTHER -> 0

\* serialize_scores: the scores dict with string keys (lines 222-223)
serialize_scores(scores) ==
    [k \in {str(u) : u \in {v \in DOMAIN scores : scores[v] /= Absent}} |-> scores[int(k)]]

\* the scores document read back without the entries whose score is 0
parse_scores_without_zero(raw) ==
    [u \in Users |-> IF str(u) \in DOMAIN raw /\ raw[str(u)] /= 0 THEN raw[str(u)] ELSE Absent]

\* {int(key): int(value)} of the scores document (lines 256-257)
parse_scores(raw) ==
    LET dict == [u \in {int(k) : k \in DOMAIN raw} |-> raw[str(u)]]
    IN  [u \in Users |-> IF u \in DOMAIN dict THEN dict[u] ELSE Absent]

\* a kick dict as JSON: string keys, sorted lists
serialize_votes(votes) ==
    [k \in {str(u) : u \in DOMAIN votes} |-> sorted(votes[int(k)])]

\* and back: integer keys, sets
parse_votes(raw) ==
    [u \in {int(k) : k \in DOMAIN raw} |-> Range(raw[str(u)])]

\* the JSON document: the sets become sorted lists
state_payload(state) ==
    [status |-> state.status, round_index |-> state.round_index,
     max_rounds |-> state.max_rounds, round_seconds |-> state.round_seconds,
     drawer_id |-> state.drawer_id, word |-> state.word,
     scores |-> serialize_scores(state.scores),
     guessed |-> sorted(state.guessed),
     revealed_indices |-> sorted(state.revealed_indices),
     started_at |-> state.started_at, last_drawer_id |-> state.last_drawer_id,
     kick_votes |-> serialize_votes(state.kick_votes),
     kick_responses |-> serialize_votes(state.kick_responses)]

\* the fields of the process's GameState overwritten from the document
apply_state_payload(state, payload) ==
    [state EXCEPT !.status = payload.status, !.round_index = payload.round_index,
                  !.max_rounds = payload.max_rounds,
                  !.round_seconds = payload.round_seconds,
                  !.drawer_id = payload.drawer_id, !.word = payload.word,
                  !.scores = parse_scores(payload.scores),
                  !.guessed = Range(payload.guessed),
                  !.revealed_indices = Range(payload.revealed_indices),
                  !.started_at = payload.started_at,
                  !.last_drawer_id = payload.last_drawer_id,
                  !.kick_votes = parse_votes(payload.kick_votes),
                  !.kick_responses = parse_votes(payload.kick_responses)]

load_state_from_redis(state) ==
    IF kv = <<>> THEN state ELSE apply_state_payload(state, kv[1])

ScoreGet(scores, u) == IF scores[u] = Absent THEN 0 ELSE scores[u]

Max(a, b) == IF a >= b THEN a ELSE b

\* ------------------------------------------------------------ frames
NoMsg == [type |-> "none", message |-> "", target_id |-> None, approve |-> FALSE]

\* self: the channel of the consumer the coroutine belongs to; user: the
\* consumer's self.user (None until the socket is admitted); target: the
\* user a task or a kick is about; code: the close code the server sent;
\* adm: the facts the admission was decided on; kicked: the client has
\* received kicked; seen: a socket of the task's user was admitted after
\* the task was created; sent: the sockets kick_user has sent kicked to
Frame(pc, self) ==
    [pc |-> pc, self |-> self, raw |-> <<>>, msg |-> NoMsg, points |-> 0,
     flag |-> FALSE, rp |-> <<>>, reason |-> "", cur |-> 0, stamp |-> 0,
     gcount |-> 0, user |-> None, target |-> None, code |-> 0, adm |-> <<>>,
     kicked |-> FALSE, seen |-> FALSE, sent |-> {}]

\* the frame of a task that is not running: it has no locals
Ended(pc) == [pc |-> pc]

\* the frame of a thread whose handler (or task) has returned
Done(t) ==
    IF t \in Sockets
    THEN [Frame("idle", t) EXCEPT !.user = fr[t].user, !.adm = fr[t].adm,
                                  !.kicked = fr[t].kicked]
    ELSE Ended("dead")

\* the frame of a socket the server has closed: disconnect() is next
Closed(t) ==
    IF t \in Sockets
    THEN [Frame("closing", t) EXCEPT !.user = fr[t].user, !.adm = fr[t].adm,
                                     !.kicked = fr[t].kicked, !.code = 4003]
    ELSE Ended("dead")

Goto(t, pc) == [fr[t] EXCEPT !.pc = pc, !.raw = <<>>]

is_timer_owner(self) == owner /= <<>> /\ owner[1].channel = self

\* the room after its members joined over HTTP, before any socket is opened
\* a sender who has not chatted: no deque, no penalty, no cooldown
\* (fanned: the sender's last chat was sent to the group)
\* a channel that is not inside a timer-owner call (served: calls made)
\* (before: the key that made SET NX fail, current: the reply to GET)
NoCall ==
    [pc |-> "idle", op |-> "none", round_index |-> 0, started_at |-> 0, seconds |-> 0,
     before |-> <<>>, current |-> <<>>, ret |-> <<>>, served |-> 0]

\* a consumer outside state_lock (raised: its last pass ended in
\* RuntimeError; ran: the body of its pass has run; served: passes ended)
NoEntry == [pc |-> "idle", raised |-> FALSE, ran |-> FALSE, served |-> 0]

NoChat ==
    [history |-> <<>>, penalty |-> 0, cooldown |-> 0, now |-> 0, ret |-> <<>>,
     fanned |-> FALSE]

InitGame(c, members, q) ==
    /\ active = members
    /\ kv = <<>>
    /\ owner = <<>>
    /\ lock = None
    /\ cache = c
    /\ fr = [t \in Threads |-> IF t \in Sockets THEN Frame("closed", t) ELSE Ended("dead")]
    /\ clock = 0
    /\ quota = [q EXCEPT !.socks = IF @ = {} THEN members ELSE @]
    /\ starts = 0
    /\ incs = 0
    /\ ends = [s \in 1..MaxStarts |-> 0]
    /\ awards = [s \in 1..MaxStarts |-> <<>>]
    /\ conns = [p \in Procs |-> {}]
    /\ count = [u \in Users |-> 0]
    /\ dtasks = [p \in Procs |-> {}]
    /\ ktasks = [p \in Procs |-> {}]
    /\ group = {}
    /\ inbox = [s \in Sockets |-> <<>>]
    /\ presence = <<>>
    /\ marks = [u \in Users |-> 0]
    /\ joins = [u \in Joiners |-> "idle"]
    /\ canvas = [history |-> <<>>, sent |-> 0]
    /\ calls = [ch \in OwnerCallers |-> NoCall]
    /\ wire = [s \in Sockets |-> {}]
    /\ local_lock = [p \in Procs |-> None]
    /\ entries = [ch \in LockCallers |-> NoEntry]

\* every process starts with a new GameState (get_state, lines 160-165)
InitRoom(members, q) ==
    /\ InitGame([p \in Procs |-> GameState], members, q)
    /\ sender = NoChat

\* the database tables of the lifecycle code are left out of the room engine
NoDb ==
    /\ Room = <<>>
    /\ RoomMember = <<>>
    /\ RoomInvite = <<>>
    /\ today = 0
    /\ http = <<>>

InitWith(members, q) == InitRoom(members, q) /\ NoDb


\* ------------------------------------------------------------ helpers
UNCH_LOG == UNCHANGED <<starts, incs, ends, awards>>

UNCH_NET == UNCHANGED <<conns, count, dtasks, ktasks, group, inbox, presence, marks, joins, dbvars, canvas, sender, calls, wire, local_lock, entries>>

\* task.cancel() on the round_timer task of process p, issued by thread t
CancelTask(f, p, t) ==
    IF TimerOf(p) = t THEN f ELSE [f EXCEPT ![TimerOf(p)] = Ended("dead")]

\* a cancelled task leaves state_lock through its finally block
LockAfterCancel(l, p, t) == IF l = TimerOf(p) /\ t /= TimerOf(p) THEN None ELSE l

release_timer_owner(self) == IF is_timer_owner(self) THEN <<>> ELSE owner

\* the JSON document and the TTL that claim_timer_owner writes (lines 373-387)
owner_payload(self, round_index, started_at) ==
    <<[channel |-> self, round_index |-> round_index, started_at |-> started_at,
       ttl |-> Max(10, TIMER_OWNER_GRACE_SECONDS + 2)]>>

\* claim_timer_owner inside start_round: no key expires in the room engine and
\* the room lock is held, so its KV commands act as one
claim_timer_owner(self, round_index, started_at) ==
    LET mine == owner_payload(self, round_index, started_at)
    IN  IF owner = <<>> THEN [owner |-> mine, claimed |-> TRUE]
        ELSE IF owner[1].round_index /= round_index \/ owner[1].started_at /= started_at
             THEN [owner |-> mine, claimed |-> TRUE]
             ELSE [owner |-> owner, claimed |-> owner[1].channel = self]

choose_drawer(active_ids, last_drawer_id) ==
    IF Cardinality(active_ids) = 1 THEN active_ids
    ELSE IF active_ids \ {last_drawer_id} = {} THEN active_ids
         ELSE active_ids \ {last_drawer_id}

\* str.lower() on the chat texts and words of the model
lower(message) == IF message = "SUN" THEN "sun" ELSE message

IsCandidate(state, uid, message) ==
    /\ state.status = "running"
    /\ state.word /= NoWord
    /\ uid /= state.drawer_id
    /\ uid \notin state.guessed
    /\ lower(message) = lower(state.word)

GuessPoints(state) == Max(20, 100 - 10 * Cardinality(state.guessed))

ApplyGuess(state, uid) ==
    LET points == GuessPoints(state)
        s1 == [state EXCEPT !.guessed = @ \cup {uid},
                            !.scores[uid] = ScoreGet(state.scores, uid) + points]
    IN  IF s1.drawer_id /= None
        THEN [s1 EXCEPT !.scores[s1.drawer_id] = ScoreGet(s1.scores, s1.drawer_id) + 10]
        ELSE s1

StartState(state, word, drawer_id, now) ==
    [state EXCEPT !.status = "running", !.round_index = @ + 1, !.word = word,
                  !.guessed = {}, !.revealed_indices = {}, !.started_at = now,
                  !.drawer_id = drawer_id, !.last_drawer_id = drawer_id]

\* end_round with the line "state.word = None" left out
EndRoundKeepingWord(state) ==
    [state EXCEPT !.status = "waiting", !.drawer_id = None,
                  !.guessed = {}, !.revealed_indices = {}]

EndRoundState(state) ==
    [state EXCEPT !.status = "waiting", !.word = NoWord, !.drawer_id = None,
                  !.guessed = {}, !.revealed_indices = {}]

PauseState(state) ==
    [state EXCEPT !.status = "waiting", !.word = NoWord, !.drawer_id = None]

FinishState(state) ==
    [state EXCEPT !.status = "finished", !.word = NoWord, !.drawer_id = None]

HintCandidates(state) ==
    {i \in 1..Len(WordChars(state.word)) :
        WordChars(state.word)[i] /= " " /\ i \notin state.revealed_indices}

\* char.upper() for the letters of WORDS
upper(char) ==
    CASE char = "s" -> "S" [] char = "u" -> "U" [] char = "n" -> "N"
      [] char = "k" -> "K" [] char = "e" -> "E" [] char = "y" -> "Y"
      [] OTHER -> char

\* mask_word: a space stays, a revealed letter is shown in upper case, any
\* other letter is "_"; the letters are joined by single spaces
mask_word(word, revealed) ==
    LET chars == WordChars(word)
        letter(i) == IF chars[i] = " " THEN " "
                     ELSE IF i \in revealed THEN upper(chars[i]) ELSE "_"
    IN  [j \in 1..(IF chars = <<>> THEN 0 ELSE 2 * Len(chars) - 1) |->
            IF j % 2 = 1 THEN letter((j + 1) \div 2) ELSE " "]

\* the envelopes that tell about the word. stamp is not a key of the
\* envelope: it names the round (started_at) the envelope was built from
round_start_event(rp, stamp) ==
    [type |-> "round_start", round |-> rp.round, drawer_id |-> rp.drawer_id,
     masked_word |-> rp.masked_word, stamp |-> stamp]

round_secret(word, stamp) == [type |-> "round_secret", word |-> word, stamp |-> stamp]

\* the chat envelope of a message that is not a correct guess (lines 683-689)
chat_event(message, uid) ==
    [type |-> "chat", message |-> message, user |-> uid, system |-> FALSE]

\* the game_state envelope of send_game_state (lines 936-962)
game_state_event(state) ==
    IF state.status = "running" /\ state.word /= NoWord
    THEN [type |-> "game_state", status |-> state.status, round |-> state.round_index,
          drawer_id |-> state.drawer_id,
          masked_word |-> mask_word(state.word, state.revealed_indices),
          stamp |-> state.started_at]
    ELSE [type |-> "game_state", status |-> state.status, round |-> state.round_index,
          stamp |-> state.started_at]

\* send_to_user without the test of direct_to_user
direct_to_all(S, target_id) == S

\* direct_to_user on every consumer of the group: the sockets that pass
\* the payload on to their client (lines 1218-1221)
direct_to_user(S, target_id) == {s \in S : UserOf(s) = target_id}

\* the envelopes E handed to the clients of the sockets S
Hand(w, S, E) == [s \in Sockets |-> IF s \in S THEN w[s] \cup E ELSE w[s]]

\* CloseCode with the room looked up before the user is authenticated
room_first_code(auth, room_ok, allowed, member) ==
    IF ~room_ok THEN 4404
    ELSE IF ~auth THEN 4401
    ELSE IF ~allowed THEN 4403
    ELSE IF ~member THEN 4403
    ELSE 0

\* the close code of connect(): 0 when the socket is admitted (lines 465-482)
CloseCode(auth, room_ok, allowed, member) ==
    IF ~auth THEN 4401
    ELSE IF ~room_ok THEN 4404
    ELSE IF ~allowed THEN 4403
    ELSE IF ~member THEN 4403
    ELSE 0

\* the sockets of user u among the channels S
SocketsOf(u, S) == {s \in S : UserOf(s) = u}

\* task.cancel() on the mark_inactive_later task of user u in process p
CancelGrace(f, p, u) ==
    IF u \in dtasks[p] /\ f[GraceOf(p, u)].pc \notin {"dead", "cancelled"}
    THEN [f EXCEPT ![GraceOf(p, u)] = Ended("cancelled")]
    ELSE f

\* the grace tasks of user u that are still asleep have seen u with a socket
SeeSocket(f, u) ==
    [g \in Threads |->
        IF g \in Graces /\ f[g].pc = "gr_sleep" /\ f[g].user = u
        THEN [f[g] EXCEPT !.seen = TRUE] ELSE f[g]]

\* connect(): the admission (auth, room_ok, allowed: what the scope and the
\* DB say about the user and the room) and, for an admitted socket, the
\* locked section, group_add, accept and the presence broadcast
\* (lines 460-501)
Connect(t, auth, room_ok, allowed) ==
    /\ t \in Sockets
    /\ fr[t].pc = "closed"
    /\ t \in quota.socks
    /\ (auth /\ room_ok /\ allowed) \/ quota.reject > 0
    /\ quota' = [quota EXCEPT !.socks = @ \ {t},
                              !.reject = IF auth /\ room_ok /\ allowed THEN @ ELSE @ - 1]
    /\ LET u == UserOf(t)
           p == Proc(t)
           adm == <<auth, room_ok, allowed, u \in active>>
           code == CloseCode(auth, room_ok, allowed, u \in active)
       IN  IF code /= 0
           THEN /\ fr' = [fr EXCEPT ![t] = [Frame("closing", t) EXCEPT !.code = code, !.adm = adm]]
                /\ UNCHANGED <<kv, cache, conns, count, dtasks, group, presence>>
           ELSE /\ lock = None
                /\ LET st == load_state_from_redis(cache[p])
                       s2 == [st EXCEPT !.scores[u] = IF @ = Absent THEN 0 ELSE @]
                   IN  /\ cache' = [cache EXCEPT ![p] = s2]
                       /\ kv' = <<state_payload(s2)>>
                /\ conns' = [conns EXCEPT ![p] = @ \cup {t}]
                /\ dtasks' = [dtasks EXCEPT ![p] = @ \ {u}]
                /\ count' = [count EXCEPT ![u] = @ + 1]
                /\ group' = group \cup {t}
                /\ presence' = <<active>>
                /\ fr' = [SeeSocket(CancelGrace(fr, p, u), u) EXCEPT
                             ![t] = [Goto(t, IF quota.wire THEN "gs_load" ELSE "cn_msg")
                                        EXCEPT !.user = u, !.adm = adm]]
    /\ UNCHANGED <<active, owner, lock, clock, ktasks, inbox, marks, joins, dbvars, canvas, sender, calls, wire, local_lock, entries>>
    /\ UNCH_LOG

\* ---------------------------------------------------- unlocked loads
\* gs_load: the load of send_game_state, followed where quota.wire is set;
\* cn_msg: the load of maybe_start_game
LoadPcs == {"gs_load", "cn_msg", "rj_load", "rt_load", "kt_load"}

\* what the thread does, up to its next suspension, once the load has
\* written state c into the process's GameState
AfterLoad(t, c) ==
    LET f == fr[t] IN
    CASE f.pc = "gs_load" -> [Goto(t, "gs_send") EXCEPT !.rp = <<game_state_event(c)>>]
      [] f.pc = "cn_msg" ->
            IF c.status /= "waiting" \/ c.round_index > 0 THEN Done(t)
            ELSE Goto(t, "ms_ids")
      [] f.pc = "rt_load" ->
            IF c.status /= "running" \/ ~is_timer_owner(f.self) THEN Done(t)
            ELSE Goto(t, "rt_emit")
      [] f.pc = "kt_load" ->
            IF f.target \in DOMAIN c.kick_votes THEN Ended("cancelled")
            ELSE Done(t)
      [] f.pc = "rj_load" ->
            CASE f.msg.type = "chat" ->
                    IF c.status = "running" /\ c.drawer_id = f.user THEN Done(t)
                    ELSE IF IsCandidate(c, f.user, f.msg.message)
                         THEN Goto(t, "cg_txn")
                         ELSE IF quota.wire THEN Goto(t, "cg_chat") ELSE Done(t)
              [] f.msg.type = "start_game" ->
                    IF c.status = "running" THEN Done(t) ELSE Goto(t, "sr_lock")
              [] f.msg.type = "draw" ->
                    IF c.status /= "running" \/ c.drawer_id /= f.user THEN Done(t)
                    ELSE Goto(t, "dr_send")
              [] f.msg.type = "clear" ->
                    IF c.status = "running" /\ c.drawer_id = f.user THEN Goto(t, "cl_send")
                    ELSE Done(t)
              [] f.msg.type = "leave" -> Goto(t, "lv_txn")
              [] f.msg.type = "kick_request" ->
                    IF f.msg.target_id = f.user THEN Done(t)
                    ELSE [Goto(t, "kr_lock") EXCEPT !.target = f.msg.target_id]
              [] f.msg.type = "kick_vote" ->
                    IF f.msg.target_id = f.user THEN Done(t)
                    ELSE [Goto(t, "kv_txn") EXCEPT !.target = f.msg.target_id]
              [] OTHER -> Done(t)

\* kick_timeout (lines 835-839) that finds its target in kick_votes calls
\* cancel_kick_vote, which pops the entry of the task that is running
\* it and cancels that task (lines 842-844): CancelledError is raised at the
\* next suspension, the acquire of the room lock (line 289)
PopOwnTimeout(t, c) ==
    IF fr[t].pc = "kt_load" /\ fr[t].target \in DOMAIN c.kick_votes
    THEN [ktasks EXCEPT ![Proc(t)] = @ \ {fr[t].target}]
    ELSE ktasks

\* load_state_from_redis outside the lock, reply applied at once
LoadAtomic(t) ==
    /\ fr[t].pc \in LoadPcs
    /\ fr[t].raw = <<>>
    /\ LET c == load_state_from_redis(cache[Proc(t)])
       IN  /\ cache' = [cache EXCEPT ![Proc(t)] = c]
           /\ fr' = [fr EXCEPT ![t] = AfterLoad(t, c)]
           /\ ktasks' = PopOwnTimeout(t, c)
    /\ UNCHANGED <<active, kv, owner, lock, clock, quota>>
    /\ UNCH_LOG
    /\ UNCHANGED <<conns, count, dtasks, group, inbox, presence, marks, joins, dbvars, canvas, sender, calls, wire, local_lock, entries>>

\* load_state_from_redis outside the lock: the GET is served now ...
LoadRead(t) ==
    /\ fr[t].pc \in LoadPcs
    /\ fr[t].raw = <<>>
    /\ kv /= <<>>
    /\ quota.stale > 0
    /\ t \in quota.late
    /\ quota' = [quota EXCEPT !.stale = @ - 1]
    /\ fr' = [fr EXCEPT ![t].raw = kv]
    /\ UNCHANGED <<active, kv, owner, lock, cache, clock>>
    /\ UNCH_LOG
    /\ UNCH_NET

\* ... and apply_state_payload runs when the coroutine is resumed
LoadApply(t) ==
    /\ fr[t].pc \in LoadPcs
    /\ fr[t].raw /= <<>>
    /\ LET c == apply_state_payload(cache[Proc(t)], fr[t].raw[1])
       IN  /\ cache' = [cache EXCEPT ![Proc(t)] = c]
           /\ fr' = [fr EXCEPT ![t] = AfterLoad(t, c)]
           /\ ktasks' = PopOwnTimeout(t, c)
    /\ UNCHANGED <<active, kv, owner, lock, clock, quota>>
    /\ UNCH_LOG
    /\ UNCHANGED <<conns, count, dtasks, group, inbox, presence, marks, joins, dbvars, canvas, sender, calls, wire, local_lock, entries>>

\* send_game_state after its load: the game_state envelope and, after that
\* await, round_secret to a socket whose user is state.drawer_id by then
\* (lines 936-962)
GameStateSend(t) ==
    /\ fr[t].pc = "gs_send"
    /\ LET c == cache[Proc(t)]
           e == fr[t].rp[1]
       IN  wire' = [wire EXCEPT ![t] =
                       @ \cup {e}
                         \cup (IF "masked_word" \in DOMAIN e /\ fr[t].user = c.drawer_id
                               THEN {round_secret(c.word, c.started_at)}
                               ELSE {})]
    /\ fr' = [fr EXCEPT ![t] = [Goto(t, "cn_msg") EXCEPT !.rp = <<>>]]
    /\ UNCHANGED <<active, kv, owner, lock, cache, clock, quota>>
    /\ UNCH_LOG
    /\ UNCHANGED <<conns, count, dtasks, ktasks, group, inbox, presence, marks, joins, dbvars,
                   canvas, sender, calls, local_lock, entries>>

\* maybe_start_game(): get_active_member_ids (lines 974-976)
MaybeStartIds(t) ==
    /\ fr[t].pc = "ms_ids"
    /\ fr' = [fr EXCEPT ![t] = IF Cardinality(active) >= 2 THEN Goto(t, "sr_lock") ELSE Done(t)]
    /\ UNCHANGED <<active, kv, owner, lock, cache, clock, quota>>
    /\ UNCH_LOG
    /\ UNCH_NET

\* ------------------------------------------------------------ receive_json
Messages ==
    {[NoMsg EXCEPT !.type = ty] : ty \in {"start_game", "leave", "draw", "clear"}}
    \cup {[NoMsg EXCEPT !.type = "chat", !.message = m] : m \in ChatTexts \cup CasedTexts}
    \cup {[NoMsg EXCEPT !.type = "kick_request", !.target_id = u] : u \in Users}
    \cup {[NoMsg EXCEPT !.type = "kick_vote", !.target_id = u, !.approve = b] :
               u \in Users, b \in BOOLEAN}

\* receive_json(): is_member_active check and message intake (lines 545-550)
Recv(t, m) ==
    /\ t \in Sockets
    /\ fr[t].pc = "idle"
    /\ quota[m.type] > 0
    /\ m.message \in CasedTexts => quota.wire
    /\ quota' = [quota EXCEPT ![m.type] = @ - 1]
    /\ fr' = [fr EXCEPT ![t] = IF fr[t].user \in active
                                THEN [Goto(t, "rj_load") EXCEPT !.msg = m]
                                ELSE Closed(t)]
    /\ UNCHANGED <<active, kv, owner, lock, cache, clock>>
    /\ UNCH_LOG
    /\ UNCH_NET

\* ------------------------------------------------------------ draw, clear
\* the last DRAW_HISTORY_LIMIT entries of a list (ltrim)
ltrim(h) ==
    IF Len(h) <= DRAW_HISTORY_LIMIT THEN h
    ELSE SubSeq(h, Len(h) - DRAW_HISTORY_LIMIT + 1, Len(h))

\* receive_json, draw of the drawer of a running round: the draw envelope
\* sent to the group and the stroke stored (lines 556-565, 1334-1342)
DrawSend(t) ==
    /\ fr[t].pc = "dr_send"
    /\ canvas' = [history |-> ltrim(Append(canvas.history, fr[t].user)),
                  sent |-> canvas.sent + 1]
    /\ fr' = [fr EXCEPT ![t] = Done(t)]
    /\ UNCHANGED <<active, kv, owner, lock, cache, clock, quota>>
    /\ UNCH_LOG
    /\ UNCHANGED <<conns, count, dtasks, ktasks, group, inbox, presence, marks, joins, dbvars, sender, calls, wire, local_lock, entries>>

\* receive_json, clear of the drawer of a running round: the clear envelope
\* sent to the group and the history deleted (lines 573-581, 1356-1363)
ClearSend(t) ==
    /\ fr[t].pc = "cl_send"
    /\ canvas' = [history |-> <<>>, sent |-> canvas.sent + 1]
    /\ fr' = [fr EXCEPT ![t] = Done(t)]
    /\ UNCHANGED <<active, kv, owner, lock, cache, clock, quota>>
    /\ UNCH_LOG
    /\ UNCHANGED <<conns, count, dtasks, ktasks, group, inbox, presence, marks, joins, dbvars, sender, calls, wire, local_lock, entries>>

\* ------------------------------------------------------ handle_chat_guess
\* the locked section up to save_state_to_redis (lines 633-650)
GuessTxn(t) ==
    /\ fr[t].pc = "cg_txn"
    /\ lock = None
    /\ LET st == load_state_from_redis(cache[Proc(t)])
           uid == fr[t].user
       IN  IF ~IsCandidate(st, uid, fr[t].msg.message)
           THEN /\ cache' = [cache EXCEPT ![Proc(t)] = st]
                /\ fr' = [fr EXCEPT ![t] = Done(t)]
                /\ UNCHANGED <<kv, lock, awards>>
           ELSE LET s2 == ApplyGuess(st, uid)
                IN  /\ cache' = [cache EXCEPT ![Proc(t)] = s2]
                    /\ kv' = <<state_payload(s2)>>
                    /\ lock' = t
                    /\ fr' = [fr EXCEPT ![t] = [Goto(t, "cg_ids") EXCEPT
                                  !.points = GuessPoints(st),
                                  !.gcount = Cardinality(s2.guessed),
                                  !.stamp = st.started_at]]
                    /\ awards' = [awards EXCEPT ![st.started_at] =
                                      Append(@, <<uid, GuessPoints(st)>>)]
    /\ UNCHANGED <<active, owner, clock, quota, starts, incs, ends>>
    /\ UNCH_NET

\* the chat envelope of a message that is no candidate, sent to the group
\* (lines 683-690; check_chat_allowed lets a sender's first CHAT_MAX_BURST
\* messages pass)
ChatSend(t) ==
    /\ fr[t].pc = "cg_chat"
    /\ wire' = Hand(wire, group, {chat_event(fr[t].msg.message, fr[t].user)})
    /\ fr' = [fr EXCEPT ![t] = Done(t)]
    /\ UNCHANGED <<active, kv, owner, lock, cache, clock, quota>>
    /\ UNCH_LOG
    /\ UNCHANGED <<conns, count, dtasks, ktasks, group, inbox, presence, marks, joins, dbvars,
                   canvas, sender, calls, local_lock, entries>>

\* len(state.guessed) >= max(0, len(active_ids) - 1), read from the
\* process's GameState after the save (line 652)
EndDueToAllGuessed(state, active_ids) ==
    Cardinality(state.guessed) >= Max(0, Cardinality(active_ids) - 1)

\* get_active_member_ids, the end test, leaving the lock, and the
\* guess_correct / chat broadcasts (lines 651-681)
GuessIds(t) ==
    /\ fr[t].pc = "cg_ids"
    /\ lock' = None
    /\ fr' = [fr EXCEPT ![t] =
                 IF EndDueToAllGuessed(cache[Proc(t)], active)
                 THEN [Goto(t, "er_txn") EXCEPT !.reason = "all_guessed", !.msg = NoMsg,
                                                !.points = 0, !.gcount = 0, !.stamp = 0]
                 ELSE Done(t)]
    /\ UNCHANGED <<active, kv, owner, cache, clock, quota>>
    /\ UNCH_LOG
    /\ UNCH_NET

\* ---------------------------------------------------------------- end_round
\* the locked section (lines 1135-1149)
EndRoundTxn(t) ==
    /\ fr[t].pc = "er_txn"
    /\ lock = None
    /\ LET st == load_state_from_redis(cache[Proc(t)])
       IN  IF st.status /= "running"
           THEN /\ cache' = [cache EXCEPT ![Proc(t)] = st]
                /\ fr' = [fr EXCEPT ![t] = Done(t)]
                /\ UNCHANGED <<kv, owner>>
           ELSE /\ cache' = [cache EXCEPT ![Proc(t)] = EndRoundState(st)]
                /\ kv' = <<state_payload(EndRoundState(st))>>
                /\ owner' = release_timer_owner(fr[t].self)
                /\ fr' = [fr EXCEPT ![t] = [Goto(t, "er_send") EXCEPT
                              !.cur = st.round_index, !.stamp = st.started_at]]
    /\ UNCHANGED <<active, lock, clock, quota>>
    /\ UNCH_LOG
    /\ UNCH_NET

\* round_end broadcast, "Word was" chat line, the break (lines 1151-1174)
EndRoundSend(t) ==
    /\ fr[t].pc = "er_send"
    /\ ends' = [ends EXCEPT ![fr[t].stamp] = @ + 1]
    /\ fr' = [fr EXCEPT ![t] = [Goto(t, IF fr[t].cur < MaxRounds THEN "sr_lock" ELSE "fg_txn")
                                   EXCEPT !.reason = "", !.cur = 0, !.stamp = 0]]
    /\ UNCHANGED <<active, kv, owner, lock, cache, clock, quota, starts, incs, awards>>
    /\ UNCH_NET

\* -------------------------------------------------------------- start_round
\* state_lock, load, status test (lines 990-993)
StartRoundLock(t) ==
    /\ fr[t].pc = "sr_lock"
    /\ lock = None
    /\ LET st == load_state_from_redis(cache[Proc(t)])
       IN  /\ cache' = [cache EXCEPT ![Proc(t)] = st]
           /\ IF st.status = "running"
              THEN /\ fr' = [fr EXCEPT ![t] = Done(t)]
                   /\ lock' = lock
              ELSE /\ fr' = [fr EXCEPT ![t] = Goto(t, "sr_ids")]
                   /\ lock' = t
    /\ UNCHANGED <<active, kv, owner, clock, quota>>
    /\ UNCH_LOG
    /\ UNCH_NET

\* get_active_member_ids, then the new round written into the process's
\* GameState, up to the await of clear_draw_history (lines 995-1014)
StartRoundIds(t) ==
    /\ fr[t].pc = "sr_ids"
    /\ LET c == cache[Proc(t)]
       IN  IF Cardinality(active) < 2
           THEN /\ fr' = [fr EXCEPT ![t] = Done(t)]
                /\ lock' = None
                /\ UNCHANGED <<cache, clock>>
           ELSE IF c.round_index + 1 > MaxRounds
           THEN /\ fr' = [fr EXCEPT ![t] = Goto(t, "fg_txn")]
                /\ lock' = None
                /\ UNCHANGED <<cache, clock>>
           ELSE /\ clock < MaxStarts
                /\ clock' = clock + 1
                /\ \E word \in WORDS, drawer_id \in choose_drawer(active, c.last_drawer_id) :
                      /\ cache' = [cache EXCEPT ![Proc(t)] = StartState(c, word, drawer_id, clock + 1)]
                      /\ fr' = [fr EXCEPT ![t] = [Goto(t, "sr_save") EXCEPT
                                    !.rp = <<[masked_word |-> mask_word(word, {})]>>]]
                /\ lock' = lock
    /\ UNCHANGED <<active, kv, owner, quota>>
    /\ UNCH_LOG
    /\ UNCH_NET

KvRound == IF kv = <<>> THEN 0 ELSE kv[1].round_index

\* save_state_to_redis, claim_timer_owner, round_payload (lines 1015-1029)
StartRoundSave(t) ==
    /\ fr[t].pc = "sr_save"
    /\ LET c == cache[Proc(t)]
           cl == claim_timer_owner(fr[t].self, c.round_index, c.started_at)
       IN  /\ kv' = <<state_payload(c)>>
           /\ owner' = cl.owner
           /\ incs' = IF c.round_index = KvRound + 1 THEN incs + 1 ELSE incs
           /\ fr' = [fr EXCEPT ![t] = [Goto(t, "sr_send") EXCEPT
                        !.flag = cl.claimed,
                        !.stamp = c.started_at,
                        !.rp = <<[round |-> c.round_index, drawer_id |-> c.drawer_id,
                                  masked_word |-> fr[t].rp[1].masked_word,
                                  word |-> c.word]>>]]
    /\ lock' = None
    /\ canvas' = [canvas EXCEPT !.history = <<>>]
    /\ UNCHANGED <<active, cache, clock, quota, starts, ends, awards>>
    /\ UNCHANGED <<conns, count, dtasks, ktasks, group, inbox, presence, marks, joins, dbvars, sender, calls, wire, local_lock, entries>>

\* clear, round_start and round_secret sent; the old task cancelled and the
\* round_timer task created (lines 1044-1072)
StartRoundSend(t) ==
    /\ fr[t].pc = "sr_send"
    /\ starts' = starts + 1
    /\ LET p == Proc(t)
           f1 == [CancelTask(fr, p, t) EXCEPT ![t] = Done(t)]
       IN  fr' = IF fr[t].flag
                 THEN [f1 EXCEPT ![TimerOf(p)] = Frame("rt_load", fr[t].self)]
                 ELSE f1
    /\ lock' = LockAfterCancel(lock, Proc(t), t)
    /\ wire' = IF quota.wire
               THEN LET rp == fr[t].rp[1]
                        w1 == Hand(wire, group, {round_start_event(rp, fr[t].stamp)})
                    IN  Hand(w1, direct_to_user(group, rp.drawer_id),
                             {round_secret(rp.word, fr[t].stamp)})
               ELSE wire
    /\ UNCHANGED <<active, kv, owner, cache, clock, quota, incs, ends, awards>>
    /\ UNCHANGED <<conns, count, dtasks, ktasks, group, inbox, presence, marks, joins, dbvars,
                   canvas, sender, calls, local_lock, entries>>

\* -------------------------------------------------------------- finish_game
\* lines 1176-1192
FinishTxn(t) ==
    /\ fr[t].pc = "fg_txn"
    /\ lock = None
    /\ LET st == FinishState(load_state_from_redis(cache[Proc(t)]))
       IN  /\ cache' = [cache EXCEPT ![Proc(t)] = st]
           /\ kv' = <<state_payload(st)>>
    /\ owner' = release_timer_owner(fr[t].self)
    /\ fr' = [fr EXCEPT ![t] = Done(t)]
    /\ UNCHANGED <<active, lock, clock, quota>>
    /\ UNCH_LOG
    /\ UNCH_NET

\* the disconnect task popped and cancelled, and the locked section
\* (lines 790-798)
LeaveTxn(t) ==
    /\ fr[t].pc = "lv_txn"
    /\ lock = None
    /\ LET st == load_state_from_redis(cache[Proc(t)])
       IN  /\ cache' = [cache EXCEPT ![Proc(t)] = st]
           /\ kv' = <<state_payload(st)>>
    /\ dtasks' = [dtasks EXCEPT ![Proc(t)] = @ \ {fr[t].user}]
    /\ conns' = [conns EXCEPT ![Proc(t)] = @ \ SocketsOf(fr[t].user, @)]
    /\ count' = [count EXCEPT ![fr[t].user] = 0]
    /\ fr' = [CancelGrace(fr, Proc(t), fr[t].user) EXCEPT ![t] = Goto(t, "lv_db")]
    /\ UNCHANGED <<active, owner, lock, clock, quota>>
    /\ UNCHANGED <<ktasks, group, inbox, presence, marks, joins, dbvars, canvas, sender, calls, wire, local_lock, entries>>
    /\ UNCH_LOG

\* group_send of message m to the sockets of user u (direct_to_user,
\* direct_disconnect_user: lines 1208-1226)
SendToUser(box, u, m) ==
    [s \in Sockets |-> IF s \in SocketsOf(u, group) THEN Append(box[s], m) ELSE box[s]]

\* direct_disconnect_user, set_member_inactive, presence (lines 799-810)
LeaveDb(t) ==
    /\ fr[t].pc = "lv_db"
    /\ inbox' = SendToUser(inbox, fr[t].user, "close")
    /\ active' = active \ {fr[t].user}
    /\ presence' = <<active'>>
    /\ fr' = [fr EXCEPT ![t] = Goto(t, "mp_ids")]
    /\ UNCHANGED <<kv, owner, lock, cache, clock, quota>>
    /\ UNCHANGED <<conns, count, dtasks, ktasks, group, marks, joins, dbvars, canvas, sender, calls, wire, local_lock, entries>>
    /\ UNCH_LOG

\* --------------------------------------------------------- maybe_pause_game
\* get_active_member_ids and the tests before the lock (lines 814-817)
PauseIds(t) ==
    /\ fr[t].pc = "mp_ids"
    /\ fr' = [fr EXCEPT ![t] =
                 IF Cardinality(active) >= 2 THEN Done(t)
                 ELSE IF cache[Proc(t)].status = "running" THEN Goto(t, "mp_txn")
                      ELSE Done(t)]
    /\ UNCHANGED <<active, kv, owner, lock, cache, clock, quota>>
    /\ UNCH_LOG
    /\ UNCH_NET

\* the locked section and the round_paused broadcast (lines 818-833)
PauseTxn(t) ==
    /\ fr[t].pc = "mp_txn"
    /\ lock = None
    /\ LET st == PauseState(load_state_from_redis(cache[Proc(t)]))
       IN  /\ cache' = [cache EXCEPT ![Proc(t)] = st]
           /\ kv' = <<state_payload(st)>>
    /\ owner' = release_timer_owner(fr[t].self)
    /\ fr' = [CancelTask(fr, Proc(t), t) EXCEPT ![t] = Done(t)]
    /\ UNCHANGED <<active, lock, clock, quota>>
    /\ UNCH_LOG
    /\ UNCH_NET

\* -------------------------------------------------------------- round_timer
\* the timer envelope and what follows from seconds_left (lines 1084-1111):
\* "tick" = neither a hint mark nor 0, "hint" = 90, 60 or 30, "zero" = 0
TimerEmit(t, kind) ==
    /\ fr[t].pc = "rt_emit"
    /\ CASE kind = "tick" -> fr' = [fr EXCEPT ![t] = Goto(t, "rt_load")]
         [] kind = "hint" ->
               /\ quota.hint > 0
               /\ fr' = [fr EXCEPT ![t] =
                            IF cache[Proc(t)].word /= NoWord
                            THEN Goto(t, "rt_hint")
                            ELSE Goto(t, "rt_load")]
         [] kind = "zero" ->
               /\ quota.timeouts
               /\ fr' = [fr EXCEPT ![t] = [Goto(t, "er_txn") EXCEPT !.reason = "time"]]
    /\ quota' = IF kind = "hint" THEN [quota EXCEPT !.hint = @ - 1] ELSE quota
    /\ UNCHANGED <<active, kv, owner, lock, cache, clock>>
    /\ UNCH_LOG
    /\ UNCH_NET

reveal_hint(state, i) ==
    [state EXCEPT !.revealed_indices = @ \cup {i}]

\* the locked hint section and the hint broadcast (lines 1095-1105)
TimerHint(t) ==
    /\ fr[t].pc = "rt_hint"
    /\ lock = None
    /\ LET st == load_state_from_redis(cache[Proc(t)])
       IN  IF st.status = "running" /\ st.word /= NoWord
           THEN /\ \E i \in HintCandidates(st) \cup (IF HintCandidates(st) = {} THEN {0} ELSE {}) :
                      LET s2 == IF i = 0 THEN st ELSE reveal_hint(st, i)
                      IN  /\ cache' = [cache EXCEPT ![Proc(t)] = s2]
                          /\ kv' = <<state_payload(s2)>>
           ELSE /\ cache' = [cache EXCEPT ![Proc(t)] = st]
                /\ kv' = kv
    /\ fr' = [fr EXCEPT ![t] = Goto(t, "rt_load")]
    /\ UNCHANGED <<active, owner, lock, clock, quota>>
    /\ UNCH_LOG
    /\ UNCH_NET

\* ---------------------------------------------------- sockets closing
\* the client closes its socket
Close(t) ==
    /\ t \in Sockets
    /\ fr[t].pc = "idle"
    /\ quota.close > 0
    /\ quota' = [quota EXCEPT !.close = @ - 1]
    /\ fr' = [fr EXCEPT ![t] = [Goto(t, "closing") EXCEPT !.code = 1000]]
    /\ UNCHANGED <<active, kv, owner, lock, cache, clock>>
    /\ UNCH_LOG
    /\ UNCH_NET

\* the consumer handles the next group message addressed to its user:
\* direct_to_user sends kicked to the client, direct_disconnect_user
\* closes the socket with 4003 (lines 1218-1226)
Deliver(t) ==
    /\ t \in Sockets
    /\ fr[t].pc = "idle"
    /\ inbox[t] /= <<>>
    /\ IF Head(inbox[t]) = "kicked"
       THEN /\ fr' = [fr EXCEPT ![t].kicked = TRUE]
            /\ inbox' = [inbox EXCEPT ![t] = Tail(@)]
       ELSE /\ fr' = [fr EXCEPT ![t] = Closed(t)]
            /\ inbox' = [inbox EXCEPT ![t] = <<>>]
    /\ UNCHANGED <<active, kv, owner, lock, cache, clock, quota>>
    /\ UNCHANGED <<conns, count, dtasks, ktasks, group, presence, marks, joins, dbvars, canvas, sender, calls, wire, local_lock, entries>>
    /\ UNCH_LOG

\* decrement_connection_count: DECR, and DEL when the result is <= 0
\* (lines 337-347)
decrement_connection_count(c) == IF c - 1 <= 0 THEN 0 ELSE c - 1

\* disconnect() (lines 508-527): a socket that was not admitted has no
\* self.user and only leaves the group; an admitted one is taken out of
\* state.connections and, when it was the user's last channel in this
\* process and the user is still an active member, a mark_inactive_later
\* task is created
Disconnect(t) ==
    /\ t \in Sockets
    /\ fr[t].pc = "closing"
    /\ IF fr[t].user = None
       THEN /\ fr' = [fr EXCEPT ![t] = Goto(t, "gone")]
            /\ UNCHANGED <<kv, cache, conns, count, dtasks>>
       ELSE /\ lock = None
            /\ LET p == Proc(t)
                   u == fr[t].user
                   st == load_state_from_redis(cache[p])
                   left == conns[p] \ {t}
                   create == /\ SocketsOf(u, left) = {}
                             /\ u \notin dtasks[p]
                             /\ u \in active
               IN  /\ cache' = [cache EXCEPT ![p] = st]
                   /\ kv' = <<state_payload(st)>>
                   /\ conns' = [conns EXCEPT ![p] = left]
                   /\ dtasks' = [dtasks EXCEPT ![p] = IF create THEN @ \cup {u} ELSE @]
                   /\ count' = [count EXCEPT ![u] = decrement_connection_count(@)]
                   /\ fr' = [fr EXCEPT
                                ![t] = Goto(t, "gone"),
                                ![GraceOf(p, u)] =
                                    IF create
                                    THEN [Frame("gr_sleep", t) EXCEPT !.user = u]
                                    ELSE @]
    /\ group' = group \ {t}
    /\ inbox' = [inbox EXCEPT ![t] = <<>>]
    /\ UNCHANGED <<active, owner, lock, clock, quota, ktasks, presence, marks, joins, dbvars, canvas, sender, calls, wire, local_lock, entries>>
    /\ UNCH_LOG

\* ------------------------------------------------------ mark_inactive_later
\* the sleep is over: the locked section (lines 531-538)
GraceTxn(t) ==
    /\ t \in Graces
    /\ fr[t].pc = "gr_sleep"
    /\ lock = None
    /\ LET p == Proc(t)
           u == fr[t].user
           st == load_state_from_redis(cache[p])
       IN  /\ cache' = [cache EXCEPT ![p] = st]
           /\ IF count[u] > 0
              THEN /\ fr' = [fr EXCEPT ![t] = Done(t)]
                   /\ UNCHANGED <<kv, conns>>
              ELSE /\ conns' = [conns EXCEPT ![p] = @ \ SocketsOf(u, @)]
                   /\ kv' = <<state_payload(st)>>
                   /\ fr' = [fr EXCEPT ![t] = Goto(t, "gr_db")]
    /\ UNCHANGED <<active, owner, lock, clock, quota>>
    /\ UNCHANGED <<count, dtasks, ktasks, group, inbox, presence, marks, joins, dbvars, canvas, sender, calls, wire, local_lock, entries>>
    /\ UNCH_LOG

\* set_member_inactive (line 539)
GraceDb(t) ==
    /\ t \in Graces
    /\ fr[t].pc = "gr_db"
    /\ active' = active \ {fr[t].user}
    /\ marks' = [marks EXCEPT ![fr[t].user] = @ + 1]
    /\ fr' = [fr EXCEPT ![t] = Goto(t, "ck_txn")]
    /\ UNCHANGED <<kv, owner, lock, cache, clock, quota>>
    /\ UNCHANGED <<conns, count, dtasks, ktasks, group, inbox, presence, joins, dbvars, canvas, sender, calls, wire, local_lock, entries>>
    /\ UNCH_LOG

\* broadcast_presence (line 542), maybe_pause_game is next
GracePresence(t) ==
    /\ t \in Graces
    /\ fr[t].pc = "gr_presence"
    /\ presence' = <<active>>
    /\ fr' = [fr EXCEPT ![t] = Goto(t, "mp_ids")]
    /\ UNCHANGED <<active, kv, owner, lock, cache, clock, quota>>
    /\ UNCHANGED <<conns, count, dtasks, ktasks, group, inbox, marks, joins, dbvars, canvas, sender, calls, wire, local_lock, entries>>
    /\ UNCH_LOG

\* ------------------------------------------------------------- kick votes
\* required_votes with a simple majority in place of 80%
majority_votes(active_ids, target_id) ==
    Max(1, (Cardinality(active_ids \ {target_id}) + 1) \div 2)

\* required_votes: max(1, math.ceil(len(eligible) * 0.8)) (lines 1204-1206)
required_votes(active_ids, target_id) ==
    Max(1, (8 * Cardinality(active_ids \ {target_id}) + 9) \div 10)

\* d.setdefault(k, set()).add(u)
SetDefaultAdd(d, k, u) ==
    [x \in DOMAIN d \cup {k} |->
        IF x = k THEN (IF k \in DOMAIN d THEN d[k] ELSE {}) \cup {u} ELSE d[x]]

\* d.setdefault(k, set())
SetDefault(d, k) ==
    [x \in DOMAIN d \cup {k} |-> IF x \in DOMAIN d THEN d[x] ELSE {}]

\* d.pop(k, None)
Pop(d, k) == [x \in DOMAIN d \ {k} |-> d[x]]

\* d[k] replaced by its intersection with S, when k is a key of d
Restrict(d, k, S) ==
    [x \in DOMAIN d |-> IF x = k THEN d[x] \cap S ELSE d[x]]

\* where a coroutine goes on when kick_user or cancel_kick_vote returns:
\* the grace task to its presence broadcast (line 542), a handler is done
AfterKick(t) == IF t \in Graces THEN Goto(t, "gr_presence") ELSE Done(t)

\* handle_kick_request: state_lock, load, the test for a vote in progress
\* (lines 704-708)
KickRequestLock(t) ==
    /\ fr[t].pc = "kr_lock"
    /\ lock = None
    /\ LET st == load_state_from_redis(cache[Proc(t)])
       IN  /\ cache' = [cache EXCEPT ![Proc(t)] = st]
           /\ IF DOMAIN st.kick_votes /= {}
              THEN /\ fr' = [fr EXCEPT ![t] = Done(t)]
                   /\ lock' = lock
              ELSE /\ fr' = [fr EXCEPT ![t] = Goto(t, "kr_ids")]
                   /\ lock' = t
    /\ UNCHANGED <<active, kv, owner, clock, quota>>
    /\ UNCH_LOG
    /\ UNCH_NET

\* get_active_member_ids, the ballot of the requester written into the
\* process's GameState and saved, the kick_request broadcast, then kick_user
\* or the kick_timeout task (lines 709-745)
KickRequestIds(t) ==
    /\ fr[t].pc = "kr_ids"
    /\ lock' = None
    /\ LET p == Proc(t)
           c == cache[p]
           target_id == fr[t].target
           s2 == [c EXCEPT !.kick_votes = SetDefaultAdd(@, target_id, fr[t].user),
                           !.kick_responses = SetDefaultAdd(@, target_id, fr[t].user)]
           required == required_votes(active, target_id)
           create == target_id \notin ktasks[p]
       IN  IF target_id \notin active
           THEN /\ fr' = [fr EXCEPT ![t] = Done(t)]
                /\ UNCHANGED <<kv, cache, ktasks>>
           ELSE /\ cache' = [cache EXCEPT ![p] = s2]
                /\ kv' = <<state_payload(s2)>>
                /\ IF Cardinality(s2.kick_votes[target_id]) >= required
                   THEN /\ fr' = [fr EXCEPT ![t] = [Goto(t, "kc_txn") EXCEPT !.reason = "Voted out"]]
                        /\ ktasks' = ktasks
                   ELSE /\ ktasks' = [ktasks EXCEPT ![p] = @ \cup {target_id}]
                        /\ fr' = [fr EXCEPT
                                     ![t] = Done(t),
                                     ![KickTimerOf(p, target_id)] =
                                         IF create
                                         THEN [Frame("kt_load", fr[t].self) EXCEPT !.target = target_id]
                                         ELSE @]
    /\ UNCHANGED <<active, owner, clock, quota>>
    /\ UNCHANGED <<conns, count, dtasks, group, inbox, presence, marks, joins, dbvars, canvas, sender, calls, wire, local_lock, entries>>
    /\ UNCH_LOG

\* handle_kick_vote: state_lock, load, the test for a vote on the target
\* (lines 750-753)
KickVoteTxn(t) ==
    /\ fr[t].pc = "kv_txn"
    /\ lock = None
    /\ LET st == load_state_from_redis(cache[Proc(t)])
       IN  /\ cache' = [cache EXCEPT ![Proc(t)] = st]
           /\ IF fr[t].target \notin DOMAIN st.kick_votes
              THEN /\ fr' = [fr EXCEPT ![t] = Done(t)]
                   /\ lock' = lock
              ELSE /\ fr' = [fr EXCEPT ![t] = Goto(t, "kv_ids")]
                   /\ lock' = t
    /\ UNCHANGED <<active, kv, owner, clock, quota>>
    /\ UNCH_LOG
    /\ UNCH_NET

\* get_active_member_ids, the ballot written into the process's GameState
\* and saved, then kick_user or the kick_update broadcast (lines 754-787)
KickVoteIds(t) ==
    /\ fr[t].pc = "kv_ids"
    /\ lock' = None
    /\ LET p == Proc(t)
           u == fr[t].user
           target_id == fr[t].target
           eligible == active \ {target_id}
           s1 == [cache[p] EXCEPT !.kick_votes = SetDefault(@, target_id),
                                  !.kick_responses = SetDefault(@, target_id)]
           s2 == [s1 EXCEPT
                     !.kick_responses = Restrict(SetDefaultAdd(@, target_id, u), target_id, eligible),
                     !.kick_votes = Restrict(IF fr[t].msg.approve
                                             THEN SetDefaultAdd(@, target_id, u) ELSE @,
                                             target_id, eligible)]
       IN  IF u \notin eligible
           THEN /\ fr' = [fr EXCEPT ![t] = Done(t)]
                /\ UNCHANGED <<kv, cache>>
           ELSE IF u \in s1.kick_responses[target_id]
           THEN /\ cache' = [cache EXCEPT ![p] = s1]
                /\ fr' = [fr EXCEPT ![t] = Done(t)]
                /\ kv' = kv
           ELSE /\ cache' = [cache EXCEPT ![p] = s2]
                /\ kv' = <<state_payload(s2)>>
                /\ fr' = [fr EXCEPT ![t] =
                             IF Cardinality(s2.kick_votes[target_id])
                                    >= required_votes(active, target_id)
                             THEN [Goto(t, "kc_txn") EXCEPT !.reason = "Voted out"]
                             ELSE Done(t)]
    /\ UNCHANGED <<active, owner, clock, quota>>
    /\ UNCH_LOG
    /\ UNCH_NET

\* cleanup_kick_votes(user) of the grace task: the locked section, then
\* cancel_kick_vote, kick_user or the kick_update broadcast (lines 859-897)
CleanupTxn(t) ==
    /\ fr[t].pc = "ck_txn"
    /\ lock = None
    /\ LET p == Proc(t)
           u == fr[t].user
           st == load_state_from_redis(cache[p])
       IN  IF DOMAIN st.kick_votes = {}
           THEN /\ cache' = [cache EXCEPT ![p] = st]
                /\ fr' = [fr EXCEPT ![t] = Goto(t, "gr_presence")]
                /\ kv' = kv
           ELSE IF u \in DOMAIN st.kick_votes
           THEN /\ cache' = [cache EXCEPT ![p] = st]
                /\ kv' = <<state_payload(st)>>
                /\ fr' = [fr EXCEPT ![t] = [Goto(t, "kc_txn") EXCEPT
                                               !.reason = "Player left", !.target = u]]
           ELSE \E target_id \in DOMAIN st.kick_votes :
                  LET eligible == active \ {target_id}
                      s2 == [st EXCEPT
                                !.kick_votes = Restrict(@, target_id, eligible \ {u}),
                                !.kick_responses = Restrict(@, target_id, eligible \ {u})]
                  IN  /\ cache' = [cache EXCEPT ![p] = s2]
                      /\ kv' = <<state_payload(s2)>>
                      /\ fr' = [fr EXCEPT ![t] =
                                   IF Cardinality(s2.kick_votes[target_id])
                                          >= required_votes(active, target_id)
                                   THEN [Goto(t, "kc_txn") EXCEPT
                                            !.reason = "Voted out", !.target = target_id]
                                   ELSE Goto(t, "gr_presence")]
    /\ UNCHANGED <<active, owner, lock, clock, quota>>
    /\ UNCH_LOG
    /\ UNCH_NET

\* task.cancel() on the kick_timeout task of target u in process p
CancelKickTimer(f, p, u) ==
    IF u \in ktasks[p] /\ f[KickTimerOf(p, u)].pc \notin {"dead", "cancelled"}
    THEN [f EXCEPT ![KickTimerOf(p, u)] = Ended("cancelled")]
    ELSE f

\* cancel_kick_vote called by kick_user or cleanup_kick_votes: the timeout
\* task popped and cancelled, the locked section, the kick_cancel broadcast
\* (lines 841-857)
CancelKickTxn(t) ==
    /\ fr[t].pc = "kc_txn"
    /\ lock = None
    /\ LET p == Proc(t)
           target_id == fr[t].target
           st == load_state_from_redis(cache[p])
           s2 == [st EXCEPT !.kick_votes = Pop(@, target_id),
                            !.kick_responses = Pop(@, target_id)]
       IN  /\ cache' = [cache EXCEPT ![p] = s2]
           /\ kv' = <<state_payload(s2)>>
           /\ ktasks' = [ktasks EXCEPT ![p] = @ \ {target_id}]
           /\ fr' = [CancelKickTimer(fr, p, target_id) EXCEPT
                        ![t] = IF fr[t].reason = "Voted out"
                               THEN Goto(t, "ku_txn")
                               ELSE [AfterKick(t) EXCEPT !.user = fr[t].user]]
    /\ UNCHANGED <<active, owner, lock, clock, quota>>
    /\ UNCHANGED <<conns, count, dtasks, group, inbox, presence, marks, joins, dbvars, canvas, sender, calls, wire, local_lock, entries>>
    /\ UNCH_LOG

\* kick_user after cancel_kick_vote: the system message, kicked sent to
\* the target, the locked section (lines 901-919)
KickTxn(t) ==
    /\ fr[t].pc = "ku_txn"
    /\ lock = None
    /\ LET p == Proc(t)
           st == load_state_from_redis(cache[p])
       IN  /\ cache' = [cache EXCEPT ![p] = st]
           /\ kv' = <<state_payload(st)>>
           /\ conns' = [conns EXCEPT ![p] = @ \ SocketsOf(fr[t].target, @)]
    /\ inbox' = SendToUser(inbox, fr[t].target, "kicked")
    /\ count' = [count EXCEPT ![fr[t].target] = 0]
    /\ fr' = [fr EXCEPT ![t] = [Goto(t, "ku_db") EXCEPT
                                   !.sent = SocketsOf(fr[t].target, group)]]
    /\ UNCHANGED <<active, owner, lock, clock, quota>>
    /\ UNCHANGED <<dtasks, ktasks, group, presence, marks, joins, dbvars, canvas, sender, calls, wire, local_lock, entries>>
    /\ UNCH_LOG

\* direct_disconnect_user, set_member_inactive, presence (lines 920-932)
KickDb(t) ==
    /\ fr[t].pc = "ku_db"
    /\ inbox' = SendToUser(inbox, fr[t].target, "close")
    /\ active' = active \ {fr[t].target}
    /\ presence' = <<active'>>
    /\ fr' = [fr EXCEPT ![t] = [AfterKick(t) EXCEPT !.user = fr[t].user]]
    /\ UNCHANGED <<kv, owner, lock, cache, clock, quota>>
    /\ UNCHANGED <<conns, count, dtasks, ktasks, group, marks, joins, dbvars, canvas, sender, calls, wire, local_lock, entries>>
    /\ UNCH_LOG

\* ------------------------------------------------------------------ HTTP
\* LeaveRoomView.post: the membership row is set inactive (views.py,
\* lines 131-147)
HttpLeave(u) ==
    /\ u \in active
    /\ quota.http_leave > 0
    /\ quota' = [quota EXCEPT !.http_leave = @ - 1]
    /\ active' = active \ {u}
    /\ UNCHANGED <<kv, owner, lock, cache, fr, clock>>
    /\ UNCH_LOG
    /\ UNCH_NET

\* JoinRoomView.post of a user who is not an active member, served without
\* another request in between: the capacity check and the membership row
\* saved or created active (views.py, lines 100-123)
HttpJoin(u) ==
    /\ u \notin active
    /\ quota.http_join > 0
    /\ Cardinality(active) < MAX_PLAYERS
    /\ quota' = [quota EXCEPT !.http_join = @ - 1]
    /\ active' = active \cup {u}
    /\ UNCHANGED <<kv, owner, lock, cache, fr, clock>>
    /\ UNCH_LOG
    /\ UNCH_NET

\* RespondRoomInviteView.post accepting an invite into another room: the
\* membership row of this room is set inactive and direct_disconnect_user
\* is sent to this room's group (views.py, lines 374-409)
HttpInviteAway(u) ==
    /\ u \in active
    /\ quota.invite_away > 0
    /\ quota' = [quota EXCEPT !.invite_away = @ - 1]
    /\ active' = active \ {u}
    /\ inbox' = SendToUser(inbox, u, "close")
    /\ UNCHANGED <<kv, owner, lock, cache, fr, clock>>
    /\ UNCHANGED <<conns, count, dtasks, ktasks, group, presence, marks, joins, dbvars, canvas, sender, calls, wire, local_lock, entries>>
    /\ UNCH_LOG

\* JoinRoomView.post up to the capacity check: an active member is answered
\* at once, a full room is refused, otherwise the row is written next
\* (views.py, lines 100-117); each query is a statement of its own, the view
\* opens no transaction
JoinCheck(u) ==
    /\ u \in Joiners
    /\ joins[u] = "idle"
    /\ joins' = [joins EXCEPT ![u] =
                    IF u \in active THEN "done"
                    ELSE IF Cardinality(active) >= MAX_PLAYERS THEN "full"
                    ELSE "join_write"]
    /\ UNCHANGED <<active, kv, owner, lock, cache, fr, clock, quota>>
    /\ UNCHANGED <<conns, count, dtasks, ktasks, group, inbox, presence, marks, dbvars, canvas, sender, calls, wire, local_lock, entries>>
    /\ UNCH_LOG

\* JoinRoomView.post: the membership row is saved or created active
\* (views.py, lines 119-123)
JoinWrite(u) ==
    /\ u \in Joiners
    /\ joins[u] = "join_write"
    /\ active' = active \cup {u}
    /\ joins' = [joins EXCEPT ![u] = "done"]
    /\ UNCHANGED <<kv, owner, lock, cache, fr, clock, quota>>
    /\ UNCHANGED <<conns, count, dtasks, ktasks, group, inbox, presence, marks, dbvars, canvas, sender, calls, wire, local_lock, entries>>
    /\ UNCH_LOG

\* RespondRoomInviteView.post accepting an invite into this room, up to the
\* capacity check (views.py, lines 363-371): the transaction locks the
\* invite row only, the count is a plain read
InviteCheck(u) ==
    /\ u \in Joiners
    /\ joins[u] = "idle"
    /\ joins' = [joins EXCEPT ![u] =
                    IF u \notin active /\ Cardinality(active) >= MAX_PLAYERS
                    THEN "full" ELSE "invite_write"]
    /\ UNCHANGED <<active, kv, owner, lock, cache, fr, clock, quota>>
    /\ UNCHANGED <<conns, count, dtasks, ktasks, group, inbox, presence, marks, dbvars, canvas, sender, calls, wire, local_lock, entries>>
    /\ UNCH_LOG

\* RespondRoomInviteView.post: the membership row is saved or created
\* active and the transaction commits (views.py, lines 373-383)
InviteWrite(u) ==
    /\ u \in Joiners
    /\ joins[u] = "invite_write"
    /\ active' = active \cup {u}
    /\ joins' = [joins EXCEPT ![u] = "done"]
    /\ UNCHANGED <<kv, owner, lock, cache, fr, clock, quota>>
    /\ UNCHANGED <<conns, count, dtasks, ktasks, group, inbox, presence, marks, dbvars, canvas, sender, calls, wire, local_lock, entries>>
    /\ UNCH_LOG

\* a joiner whose request was answered sends the next one
JoinAgain(u) ==
    /\ u \in Joiners
    /\ joins[u] \in {"done", "full"}
    /\ quota.rejoin > 0
    /\ quota' = [quota EXCEPT !.rejoin = @ - 1]
    /\ joins' = [joins EXCEPT ![u] = "idle"]
    /\ UNCHANGED <<active, kv, owner, lock, cache, fr, clock>>
    /\ UNCHANGED <<conns, count, dtasks, ktasks, group, inbox, presence, marks, dbvars, canvas, sender, calls, wire, local_lock, entries>>
    /\ UNCH_LOG

\* ------------------------------------------------------------ specification
Next ==
    \/ \E t \in Sockets, auth, room_ok, allowed \in BOOLEAN : Connect(t, auth, room_ok, allowed)
    \/ \E t \in LoadThreads : LoadAtomic(t)
    \/ \E t \in LoadThreads : LoadRead(t)
    \/ \E t \in LoadThreads : LoadApply(t)
    \/ \E t \in Sockets : GameStateSend(t)
    \/ \E t \in Sockets : ChatSend(t)
    \/ \E t \in Sockets : MaybeStartIds(t)
    \/ \E t \in Sockets, m \in Messages : Recv(t, m)
    \/ \E t \in Sockets : DrawSend(t)
    \/ \E t \in Sockets : ClearSend(t)
    \/ \E t \in Sockets : GuessTxn(t)
    \/ \E t \in Sockets : GuessIds(t)
    \/ \E t \in RoundThreads : EndRoundTxn(t)
    \/ \E t \in RoundThreads : EndRoundSend(t)
    \/ \E t \in RoundThreads : StartRoundLock(t)
    \/ \E t \in RoundThreads : StartRoundIds(t)
    \/ \E t \in RoundThreads : StartRoundSave(t)
    \/ \E t \in RoundThreads : StartRoundSend(t)
    \/ \E t \in RoundThreads : FinishTxn(t)
    \/ \E t \in Sockets : LeaveTxn(t)
    \/ \E t \in Sockets : LeaveDb(t)
    \/ \E t \in DepartThreads : PauseIds(t)
    \/ \E t \in DepartThreads : PauseTxn(t)
    \/ \E t \in Timers, kind \in {"tick", "hint", "zero"} : TimerEmit(t, kind)
    \/ \E t \in Timers : TimerHint(t)
    \/ \E t \in Sockets : Close(t)
    \/ \E t \in Sockets : Deliver(t)
    \/ \E t \in Sockets : Disconnect(t)
    \/ \E t \in Graces : GraceTxn(t)
    \/ \E t \in Graces : GraceDb(t)
    \/ \E t \in Graces : GracePresence(t)
    \/ \E t \in Sockets : KickRequestLock(t)
    \/ \E t \in Sockets : KickRequestIds(t)
    \/ \E t \in Sockets : KickVoteTxn(t)
    \/ \E t \in Sockets : KickVoteIds(t)
    \/ \E t \in Graces : CleanupTxn(t)
    \/ \E t \in DepartThreads : CancelKickTxn(t)
    \/ \E t \in DepartThreads : KickTxn(t)
    \/ \E t \in DepartThreads : KickDb(t)
    \/ \E u \in Users : HttpLeave(u)
    \/ \E u \in Users : HttpInviteAway(u)
    \/ \E u \in Users : HttpJoin(u)

\* what the environment may do in one behaviour; timeouts: rounds may
\* run out of time; late: the coroutines whose KV replies may be late; socks: the sockets that may be opened, {} stands for the
\* first socket of every member
Quota(chat, start_game, leave, stale, hint) ==
    [chat |-> chat, start_game |-> start_game, leave |-> leave, stale |-> stale,
     hint |-> hint, kick_request |-> 0, kick_vote |-> 0, close |-> 0, reject |-> 0,
     http_leave |-> 0, invite_away |-> 0, rejoin |-> 0, http_join |-> 0,
     draw |-> 0, clear |-> 0,
     timeouts |-> TRUE, late |-> LoadThreads, socks |-> {}, wire |-> FALSE]

\* two members on one process: guesses racing with late replies
GuessRace == InitWith({1, 2}, [Quota(Chats, 0, 0, StaleReplies, 0) EXCEPT !.timeouts = FALSE])

\* two members on two processes: a guess or a leave racing with the timer
TimerRace == InitWith({1, 3}, Quota(Chats - 1, 0, Leaves, 0, 0))

\* three members, two of them connected on two processes: a leave
LeaveRace == InitWith(Users, [Quota(0, 0, Leaves, 0, 0) EXCEPT !.socks = {1, 3}])

\* two members on two processes: start_game messages and hint marks
HintRun == InitWith({1, 3}, Quota(0, StartGames, 0, 0, HintMarks))

\* two members on one process: a start_game message racing with late replies
RestartRace == InitWith({1, 2}, Quota(0, StartGames, 0, StaleReplies, 0))

\* three members, two of them connected on one process: a kick request, a
\* leave
KickRun ==
    InitWith(Users, [Quota(0, 0, 0, 0, 0) EXCEPT
                        !.socks = {1, 2}, !.kick_request = KickRequests,
                        !.leave = Leaves, !.timeouts = FALSE])

\* two members on one process: a kick request that is its own quorum
KickPair ==
    InitWith({1, 2}, [Quota(0, 0, 0, 0, 0) EXCEPT !.kick_request = KickRequests, !.timeouts = FALSE])

\* three members, two of them connected on two processes: two kick votes
\* in a row, a late reply to the kick_timeout task of the first
KickRace ==
    InitWith(Users, [Quota(0, 0, 0, StaleReplies, 0) EXCEPT
                        !.socks = {1, 3}, !.kick_request = KickRequests + 1,
                        !.kick_vote = KickVotes, !.timeouts = FALSE,
                        !.late = {KickTimerOf(1, 2)}])

\* three members, two of them connected on one process: a leave and a guess
GuessLeave ==
    InitWith(Users, [Quota(1, 0, Leaves, 0, 0) EXCEPT
                        !.socks = {1, 2}, !.timeouts = FALSE, !.late = {}])

\* three members, two of them connected on one process: two chat messages
\* with the envelopes followed to the clients
EchoRun ==
    InitWith(Users, [Quota(Chats, 0, 0, 0, 0) EXCEPT
                        !.socks = {1, 2}, !.timeouts = FALSE, !.late = {},
                        !.wire = TRUE])

\* two members; user 1 leaves, joins again over HTTP and opens a socket on
\* the other process
RejoinRun ==
    InitWith({1, 3}, [Quota(0, 0, Leaves, 0, 0) EXCEPT
                         !.socks = {1, 4}, !.http_join = HttpJoins,
                         !.timeouts = FALSE, !.late = {}])

\* three members, one of them connected: a kick request, a kick vote, a
\* late reply to the round timer's load
VoteAgain ==
    InitWith(Users, [Quota(0, 0, 0, StaleReplies, 0) EXCEPT
                        !.socks = {1}, !.kick_request = KickRequests,
                        !.kick_vote = KickVotes, !.timeouts = FALSE,
                        !.late = {TimerOf(1)}])

\* two members on two processes: a member leaves over HTTP or accepts an
\* invite into another room
HttpRun ==
    InitWith({1, 3}, [Quota(0, 0, 0, 0, 0) EXCEPT
                         !.http_leave = HttpLeaves, !.invite_away = InvitesAway,
                         !.timeouts = FALSE])

\* two members; user 1 opens sockets on both processes and closes them
GraceRun ==
    InitWith({1, 2}, [Quota(0, 0, 0, 0, 0) EXCEPT
                         !.socks = {1, 4, 5}, !.close = Closes, !.timeouts = FALSE])

\* two members and a user who never joined open sockets; one admission
\* fails on the scope, the room or the user's status; a socket closes
AdmitRun ==
    InitWith({1, 2}, [Quota(0, 0, 0, 0, 0) EXCEPT
                         !.socks = {1, 2, 3}, !.reject = Rejects, !.close = 1,
                         !.timeouts = FALSE])

\* two members on two processes: one leaves during a round, which pauses
\* the game, and joins again over HTTP
PauseRun ==
    InitWith({1, 3}, [Quota(0, 0, Leaves, 0, 0) EXCEPT
                         !.http_join = HttpJoins, !.timeouts = FALSE, !.late = {}])

\* two members on one process: draw and clear messages around the start of
\* the round
DrawRun ==
    InitWith({1, 2}, [Quota(0, 0, 0, 0, 0) EXCEPT
                         !.draw = Draws, !.clear = Clears,
                         !.timeouts = FALSE, !.late = {}])

\* two members on one process: a hint mark, a kick request and a late
\* reply to the second socket's load
HintKick ==
    InitWith({1, 2}, [Quota(0, 0, 0, StaleReplies, HintMarks) EXCEPT
                         !.kick_request = KickRequests, !.timeouts = FALSE,
                         !.late = {2}])

\* two members on one process: the envelopes with words are followed over
\* the rounds of a game; a late reply to the second socket
SecretRun ==
    InitWith({1, 2}, [Quota(0, 0, 0, StaleReplies, 0) EXCEPT
                         !.wire = TRUE, !.late = {2}])

Init ==
    \/ GuessRace \/ TimerRace \/ LeaveRace \/ HintRun \/ RestartRace
    \/ KickRun \/ KickPair \/ KickRace \/ HttpRun \/ GraceRun
    \/ AdmitRun \/ PauseRun \/ DrawRun \/ HintKick \/ SecretRun
    \/ GuessLeave \/ EchoRun \/ RejoinRun \/ VoteAgain

Spec == Init /\ [][Next]_vars

\* ------------------------------------------------- the game under fairness
\* two members on one process who stay; one chat message; no late reply
FairInit == InitWith({1, 2}, [Quota(Chats - 1, 0, 0, 0, 0) EXCEPT !.late = {}])

FairNext ==
    \/ \E t \in Sockets : Connect(t, TRUE, TRUE, TRUE)
    \/ \E t \in LoadThreads : LoadAtomic(t)
    \/ \E t \in Sockets : MaybeStartIds(t)
    \/ \E t \in Sockets, m \in Messages : Recv(t, m)
    \/ \E t \in Sockets : GuessTxn(t)
    \/ \E t \in Sockets : GuessIds(t)
    \/ \E t \in RoundThreads : EndRoundTxn(t)
    \/ \E t \in RoundThreads : EndRoundSend(t)
    \/ \E t \in RoundThreads : StartRoundLock(t)
    \/ \E t \in RoundThreads : StartRoundIds(t)
    \/ \E t \in RoundThreads : StartRoundSave(t)
    \/ \E t \in RoundThreads : StartRoundSend(t)
    \/ \E t \in RoundThreads : FinishTxn(t)
    \/ \E t \in Timers, kind \in {"tick", "zero"} : TimerEmit(t, kind)

\* every coroutine that can take its next step takes it: the event loop
\* runs every ready coroutine, the KV store answers, and a coroutine that
\* waits for the room lock gets it once the lock stays free (weak
\* fairness; the locked sections of a behaviour are finitely many). The
\* seconds of a round run out: strong fairness on the timer reading
\* seconds_left = 0, which it can do once in every pass of its loop.
\* Sockets opening and messages arriving are left to the clients.
FairSteps ==
    /\ \A t \in LoadThreads : WF_vars(LoadAtomic(t))
    /\ \A t \in Sockets :
          /\ WF_vars(MaybeStartIds(t))
          /\ WF_vars(GuessTxn(t))
          /\ WF_vars(GuessIds(t))
    /\ \A t \in RoundThreads :
          /\ WF_vars(EndRoundTxn(t))
          /\ WF_vars(EndRoundSend(t))
          /\ WF_vars(StartRoundLock(t))
          /\ WF_vars(StartRoundIds(t))
          /\ WF_vars(StartRoundSave(t))
          /\ WF_vars(StartRoundSend(t))
          /\ WF_vars(FinishTxn(t))
    /\ \A t \in Timers : SF_vars(TimerEmit(t, "zero"))

FairSpec == FairInit /\ [][FairNext]_vars /\ FairSteps

\* ------------------------------------------------- HTTP join specification
\* a room one below its capacity; three users ask to join it over HTTP or
\* accept invites into it
JoinInit ==
    InitWith(1..(MAX_PLAYERS - 1),
             [Quota(0, 0, 0, 0, 0) EXCEPT
                 !.rejoin = Rejoins, !.http_leave = HttpLeaves])

JoinNext ==
    \/ \E u \in Joiners : JoinCheck(u)
    \/ \E u \in Joiners : JoinWrite(u)
    \/ \E u \in Joiners : InviteCheck(u)
    \/ \E u \in Joiners : InviteWrite(u)
    \/ \E u \in Joiners : JoinAgain(u)
    \/ \E u \in Joiners : HttpLeave(u)

JoinSpec == JoinInit /\ [][JoinNext]_vars

\* ---------------------------------------------------------------- lifecycle
\* EMPTY_ROOM_DELETE_MINUTES (settings.py, line 297)
EMPTY_ROOM_DELETE_MINUTES == 10

RoomIds == {1, 2}
InviteIds == {1, 2}
Workers == {1, 2}

\* the room engine takes no step in the specifications of the database code
UNCH_GAME ==
    UNCHANGED <<active, kv, owner, lock, cache, fr, clock, quota, starts, incs, ends,
                awards, conns, count, dtasks, ktasks, group, inbox, presence, marks, joins,
                canvas, sender, calls, wire, local_lock, entries>>

\* Room.objects.filter(is_active=True) annotated with the count of active
\* members, filtered on active_count = 0
EmptyRooms(R, M) ==
    {r \in RoomIds : R[r] /= <<>> /\ R[r][1].is_active /\ M[r] = {}}

\* the backfill of cleanup_inactive_rooms: empty rooms without a marker get
\* empty_since = now (lifecycle.py, lines 82-84)
backfill(R, M, t) ==
    [r \in RoomIds |->
        IF r \in EmptyRooms(R, M) /\ R[r][1].empty_since = None
        THEN <<[R[r][1] EXCEPT !.empty_since = t]>>
        ELSE R[r]]

\* retention_minutes: empty_minutes, or the setting when it is None (<<>>),
\* never negative (lifecycle.py, lines 70-78)
retention_minutes(empty_minutes) ==
    Max(0, IF empty_minutes = <<>> THEN EMPTY_ROOM_DELETE_MINUTES ELSE empty_minutes[1])

\* stale_rooms with the cutoff compared strictly
stale_before_cutoff(R, M, t, empty_minutes) ==
    {r \in EmptyRooms(R, M) :
        /\ R[r][1].empty_since /= None
        /\ R[r][1].empty_since < t - retention_minutes(empty_minutes)}

\* stale_rooms: active, marked empty at or before the cutoff, no active
\* member (lifecycle.py, lines 86-92)
stale_rooms(R, M, t, empty_minutes) ==
    {r \in EmptyRooms(R, M) :
        /\ R[r][1].empty_since /= None
        /\ R[r][1].empty_since <= t - retention_minutes(empty_minutes)}

\* stale_rooms.delete(): the rows of the rooms S go, and with them their
\* member and invite rows (on_delete=CASCADE, models.py lines 33 and 57)
delete(D, S) ==
    [Room |-> [r \in RoomIds |-> IF r \in S THEN <<>> ELSE D.Room[r]],
     RoomMember |-> [r \in RoomIds |-> IF r \in S THEN {} ELSE D.RoomMember[r]],
     RoomInvite |-> [i \in InviteIds |->
                        IF D.RoomInvite[i] /= <<>> /\ D.RoomInvite[i][1].room \in S
                        THEN <<>> ELSE D.RoomInvite[i]]]

\* cleanup_inactive_rooms on the tables D at time t: the tables afterwards
\* and the value returned (lifecycle.py, lines 69-99)
cleanup_inactive_rooms(D, t, empty_minutes) ==
    LET B == [D EXCEPT !.Room = backfill(D.Room, D.RoomMember, t)]
        S == stale_rooms(B.Room, B.RoomMember, t, empty_minutes)
    IN  [db |-> delete(B, S), ret |-> Cardinality(S)]

\* the tables as one record
Tables == [Room |-> Room, RoomMember |-> RoomMember, RoomInvite |-> RoomInvite]

\* the locals of an HTTP worker (or of the maintenance command)
\* kind: the view; todo: the rooms sync_room_empty_state is still to be
\* called for; after: where the view goes on after them; snap, cnt: the room
\* object and the count sync_room_empty_state has read; ret: the value the
\* last call returned; facts: what the accept transaction read about the
\* friendship and the profile; n: the requests the worker has taken
Request(pc) ==
    [pc |-> pc, kind |-> "", user |-> None, room |-> None, invite |-> None,
     todo |-> <<>>, after |-> "", snap |-> <<>>, cnt |-> 0, ret |-> <<>>,
     minutes |-> <<>>, facts |-> <<>>, n |-> 0]

\* ---------------------------------------- cleanup_inactive_rooms, on its own
\* the values of empty_minutes the callers pass: None, or a number
Minutes == {<<>>, <<-1>>, <<0>>, <<TickMinutes>>, <<2 * TickMinutes>>}

\* the rows a room can have at the time MaxToday - TickMinutes
RoomRows ==
    {<<>>} \cup
    {<<[is_active |-> a, empty_since |-> e]>> :
        a \in BOOLEAN,
        e \in {None} \cup {k * TickMinutes : k \in 1..((MaxToday \div TickMinutes) - 1)}}

CleanInit ==
    /\ InitRoom({}, Quota(0, 0, 0, 0, 0))
    /\ Room \in [RoomIds -> RoomRows]
    /\ RoomMember \in [RoomIds -> SUBSET {1, 2}]
    /\ \A r \in RoomIds : Room[r] = <<>> => RoomMember[r] = {}
    /\ RoomInvite = [i \in InviteIds |-> <<>>]
    /\ today = MaxToday - TickMinutes
    /\ http = [w \in Workers |-> Request("idle")]

\* run_maintenance (or a view) calls cleanup_inactive_rooms(empty_minutes)
CleanupCall(w, empty_minutes) ==
    /\ w \in Workers
    /\ http[w].pc = "idle"
    /\ LET c == cleanup_inactive_rooms(Tables, today, empty_minutes)
       IN  /\ Room' = c.db.Room
           /\ RoomMember' = c.db.RoomMember
           /\ RoomInvite' = c.db.RoomInvite
           /\ http' = [http EXCEPT ![w] = [Request("idle") EXCEPT
                                             !.ret = <<c.ret>>, !.minutes = empty_minutes]]
    /\ UNCHANGED today
    /\ UNCH_GAME

\* time passes
Tick ==
    /\ today + TickMinutes <= MaxToday
    /\ today' = today + TickMinutes
    /\ UNCHANGED <<Room, RoomMember, RoomInvite, http>>
    /\ UNCH_GAME

CleanNext ==
    \/ \E empty_minutes \in Minutes : CleanupCall(1, empty_minutes)
    \/ Tick

CleanSpec == CleanInit /\ [][CleanNext]_vars

\* ----------------------------------------------- views over the database
DbUsers == {1, 2}
Views == {"join", "leave", "accept", "reject"}

\* the worker goes on with pc, or returns its response
Step(w, pc) == [http[w] EXCEPT !.pc = pc]
Respond(w) == [Request("idle") EXCEPT !.n = http[w].n, !.kind = http[w].kind]

\* a request arrives: JoinRoomView.post and LeaveRoomView.post start with
\* cleanup_inactive_rooms (views.py, lines 70 and 134), RespondRoomInviteView
\* with the lookup of the invite
ViewBegin(w, kind, u, r, i) ==
    /\ http[w].pc = "idle"
    /\ http[w].n < Served
    /\ http' = [http EXCEPT ![w] =
                   [Request(CASE kind = "join" -> "jn_cleanup"
                              [] kind = "leave" -> "lv_cleanup"
                              [] OTHER -> "rs_read") EXCEPT
                       !.kind = kind, !.user = u,
                       !.room = IF kind \in {"join", "leave"} THEN r ELSE None,
                       !.invite = IF kind \in {"accept", "reject"} THEN i ELSE None,
                       !.n = http[w].n + 1]]
    /\ UNCHANGED <<Room, RoomMember, RoomInvite, today>>
    /\ UNCH_GAME

\* cleanup_inactive_rooms() called by a view (views.py, lines 70, 134, 145
\* and 396)
ViewCleanup(w) ==
    /\ http[w].pc \in {"jn_cleanup", "lv_cleanup", "end_cleanup"}
    /\ LET c == cleanup_inactive_rooms(Tables, today, <<>>)
       IN  /\ Room' = c.db.Room
           /\ RoomMember' = c.db.RoomMember
           /\ RoomInvite' = c.db.RoomInvite
    /\ http' = [http EXCEPT ![w] =
                   CASE http[w].pc = "jn_cleanup" -> Step(w, "jn_check")
                     [] http[w].pc = "lv_cleanup" -> Step(w, "lv_update")
                     [] OTHER -> Respond(w)]
    /\ UNCHANGED today
    /\ UNCH_GAME

\* JoinRoomView.post: the room, the member row, the capacity (views.py,
\* lines 76-117); an active member only has the room synced (lines 101-104)
JoinLookup(w) ==
    /\ http[w].pc = "jn_check"
    /\ LET r == http[w].room
           u == http[w].user
       IN  http' = [http EXCEPT ![w] =
                       IF Room[r] = <<>> \/ ~Room[r][1].is_active THEN Respond(w)
                       ELSE IF u \in RoomMember[r]
                            THEN [http[w] EXCEPT !.pc = "sy_read", !.todo = <<r>>,
                                                 !.after = "idle"]
                       ELSE IF Cardinality(RoomMember[r]) >= MAX_PLAYERS THEN Respond(w)
                       ELSE Step(w, "jn_save")]
    /\ UNCHANGED <<Room, RoomMember, RoomInvite, today>>
    /\ UNCH_GAME

\* JoinRoomView.post: the member row is saved or created active (views.py,
\* lines 119-123); the insert fails when the room row is gone
JoinSave(w) ==
    /\ http[w].pc = "jn_save"
    /\ LET r == http[w].room IN
       IF Room[r] = <<>>
       THEN /\ http' = [http EXCEPT ![w] = Respond(w)]
            /\ UNCHANGED RoomMember
       ELSE /\ RoomMember' = [RoomMember EXCEPT ![r] = @ \cup {http[w].user}]
            /\ http' = [http EXCEPT ![w] =
                           [http[w] EXCEPT !.pc = "sy_read", !.todo = <<r>>,
                                           !.after = "idle"]]
    /\ UNCHANGED <<Room, RoomInvite, today>>
    /\ UNCH_GAME

\* LeaveRoomView.post: the room is looked up and the member row updated to
\* inactive (views.py, lines 139-143)
LeaveUpdate(w) ==
    /\ http[w].pc = "lv_update"
    /\ LET r == http[w].room IN
       IF Room[r] = <<>> \/ ~Room[r][1].is_active
       THEN /\ http' = [http EXCEPT ![w] = Respond(w)]
            /\ UNCHANGED RoomMember
       ELSE /\ RoomMember' = [RoomMember EXCEPT ![r] = @ \ {http[w].user}]
            /\ http' = [http EXCEPT ![w] =
                           [http[w] EXCEPT !.pc = "sy_read", !.todo = <<r>>,
                                           !.after = "end_cleanup"]]
    /\ UNCHANGED <<Room, RoomInvite, today>>
    /\ UNCH_GAME

\* where a worker goes on when a call of sync_room_empty_state returns
AfterSync(w, ret) ==
    LET rest == Tail(http[w].todo) IN
    IF rest /= <<>>
    THEN [http[w] EXCEPT !.pc = "sy_read", !.todo = rest, !.ret = <<ret>>,
                         !.snap = <<>>, !.cnt = 0]
    ELSE IF http[w].after = "idle" THEN [Respond(w) EXCEPT !.ret = <<ret>>]
    ELSE [http[w] EXCEPT !.pc = http[w].after, !.todo = <<>>, !.ret = <<ret>>,
                         !.snap = <<>>, !.cnt = 0]

\* sync_room_empty_state: the room is read (lifecycle.py, lines 52-54)
SyncRead(w) ==
    /\ http[w].pc = "sy_read"
    /\ LET r == Head(http[w].todo) IN
       http' = [http EXCEPT ![w] =
                   IF Room[r] = <<>> \/ ~Room[r][1].is_active THEN AfterSync(w, FALSE)
                   ELSE [http[w] EXCEPT !.pc = "sy_count", !.snap = Room[r]]]
    /\ UNCHANGED <<Room, RoomMember, RoomInvite, today>>
    /\ UNCH_GAME

\* sync_room_empty_state: the active members are counted (line 56)
SyncCount(w) ==
    /\ http[w].pc = "sy_count"
    /\ http' = [http EXCEPT ![w] =
                   [http[w] EXCEPT !.pc = "sy_save",
                                   !.cnt = Cardinality(RoomMember[Head(http[w].todo)])]]
    /\ UNCHANGED <<Room, RoomMember, RoomInvite, today>>
    /\ UNCH_GAME

\* sync_room_empty_state: the marker is cleared or set on the room object
\* read before and saved when it changed (lines 57-66)
SyncSave(w) ==
    /\ http[w].pc = "sy_save"
    /\ LET r == Head(http[w].todo)
           was == http[w].snap[1].empty_since
           new == IF http[w].cnt > 0 THEN None
                  ELSE IF was = None THEN today ELSE was
       IN  /\ Room' = IF new /= was /\ Room[r] /= <<>>
                      THEN [Room EXCEPT ![r] = <<[@[1] EXCEPT !.empty_since = new]>>]
                      ELSE Room
           /\ http' = [http EXCEPT ![w] = AfterSync(w, http[w].cnt = 0)]
    /\ UNCHANGED <<RoomMember, RoomInvite, today>>
    /\ UNCH_GAME

\* RespondRoomInviteView.post: the invite of the user is looked up and must
\* be pending (views.py, lines 293-306)
RespondRead(w) ==
    /\ http[w].pc = "rs_read"
    /\ LET row == RoomInvite[http[w].invite] IN
       http' = [http EXCEPT ![w] =
                   IF row = <<>> \/ row[1].to_user /= http[w].user THEN Respond(w)
                   ELSE IF row[1].status /= "pending" THEN Respond(w)
                   ELSE IF http[w].kind = "reject" THEN Step(w, "rs_reject")
                   ELSE Step(w, "rs_txn")]
    /\ UNCHANGED <<Room, RoomMember, RoomInvite, today>>
    /\ UNCH_GAME

\* RespondRoomInviteView.post, action reject: the invite object read before
\* is saved as rejected (views.py, lines 308-312)
RejectSave(w) ==
    /\ http[w].pc = "rs_reject"
    /\ LET i == http[w].invite IN
       RoomInvite' = IF RoomInvite[i] = <<>> THEN RoomInvite
                     ELSE [RoomInvite EXCEPT ![i] = <<[@[1] EXCEPT !.status = "rejected"]>>]
    /\ http' = [http EXCEPT ![w] = Respond(w)]
    /\ UNCHANGED <<Room, RoomMember, today>>
    /\ UNCH_GAME

\* the writes of an accepted invite: the user's rows in other rooms set
\* inactive, the row in the invite's room active, the invite accepted, the
\* user's other pending invites cancelled (views.py, lines 373-391)
accept_invite(D, u, i) ==
    LET room == D.RoomInvite[i][1].room IN
    [D EXCEPT
        !.RoomMember = [r \in RoomIds |-> IF r = room THEN @[r] \cup {u} ELSE @[r] \ {u}],
        !.RoomInvite = [j \in InviteIds |->
            IF j = i THEN <<[@[j][1] EXCEPT !.status = "accepted"]>>
            ELSE IF @[j] /= <<>> /\ @[j][1].to_user = u /\ @[j][1].status = "pending"
                 THEN <<[@[j][1] EXCEPT !.status = "cancelled"]>>
            ELSE @[j]]]

\* RespondRoomInviteView.post, action accept: the transaction (views.py,
\* lines 314-391); friends, profile: what the Friendship and PlayerProfile
\* tables say
RespondTxn(w, friends, profile) ==
    /\ http[w].pc = "rs_txn"
    /\ LET i == http[w].invite
           u == http[w].user
           row == RoomInvite[i]
           cancelled == [RoomInvite EXCEPT ![i] = <<[@[1] EXCEPT !.status = "cancelled"]>>]
           refused == [Respond(w) EXCEPT !.facts = <<friends, profile>>]
       IN  IF row = <<>> \/ row[1].to_user /= u \/ row[1].status /= "pending"
           THEN /\ http' = [http EXCEPT ![w] = refused]
                /\ UNCHANGED <<RoomMember, RoomInvite>>
           ELSE IF ~Room[row[1].room][1].is_active \/ ~friends
           THEN /\ RoomInvite' = cancelled
                /\ http' = [http EXCEPT ![w] = refused]
                /\ UNCHANGED RoomMember
           ELSE IF \/ ~profile
                   \/ /\ u \notin RoomMember[row[1].room]
                      /\ Cardinality(RoomMember[row[1].room]) >= MAX_PLAYERS
           THEN /\ http' = [http EXCEPT ![w] = refused]
                /\ UNCHANGED <<RoomMember, RoomInvite>>
           ELSE LET D == accept_invite(Tables, u, i)
                    olds == {r \in RoomIds \ {row[1].room} : u \in RoomMember[r]}
                IN  /\ RoomMember' = D.RoomMember
                    /\ RoomInvite' = D.RoomInvite
                    /\ http' = [http EXCEPT ![w] =
                                   [http[w] EXCEPT !.pc = "sy_read",
                                                   !.todo = sorted(olds) \o <<row[1].room>>,
                                                   !.after = "end_cleanup",
                                                   !.facts = <<friends, profile>>,
                                                   !.ret = <<"accepted">>]]
    /\ UNCHANGED <<Room, today>>
    /\ UNCH_GAME

\* two rooms: user 1 is in room 1, user 2 is in room 2 or in no room; user 2
\* has an invite into each room, the second may have been answered
DbInit ==
    /\ InitRoom({}, Quota(0, 0, 0, 0, 0))
    /\ today = TickMinutes
    /\ RoomMember \in {[r \in RoomIds |-> IF r = 1 THEN {1} ELSE m] : m \in {{}, {2}}}
    /\ Room = [r \in RoomIds |->
                  <<[is_active |-> TRUE,
                     empty_since |-> IF RoomMember[r] = {} THEN today ELSE None]>>]
    /\ RoomInvite \in {[i \in InviteIds |->
                           <<[room |-> i, to_user |-> 2,
                              status |-> IF i = 1 THEN "pending" ELSE st]>>] :
                        st \in {"pending", "rejected"}}
    /\ http = [w \in Workers |-> Request("idle")]

DbNext ==
    \/ \E w \in Workers, kind \in Views, u \in DbUsers, r \in RoomIds, i \in InviteIds :
          ViewBegin(w, kind, u, r, i)
    \/ \E w \in Workers : ViewCleanup(w)
    \/ \E w \in Workers : JoinLookup(w)
    \/ \E w \in Workers : JoinSave(w)
    \/ \E w \in Workers : LeaveUpdate(w)
    \/ \E w \in Workers : SyncRead(w)
    \/ \E w \in Workers : SyncCount(w)
    \/ \E w \in Workers : SyncSave(w)
    \/ \E w \in Workers : RespondRead(w)
    \/ \E w \in Workers : RejectSave(w)
    \/ \E w \in Workers, friends, profile \in BOOLEAN : RespondTxn(w, friends, profile)
    \/ Tick

DbSpec == DbInit /\ [][DbNext]_vars

\* ------------------------------------------- the GameState document alone
\* GameStates of process 1: every persisted field takes several values
CodecStates ==
    {[status |-> st, round_index |-> sc[1], max_rounds |-> sc[2],
      round_seconds |-> sc[3], drawer_id |-> sc[4], word |-> sc[5],
      started_at |-> sc[6], last_drawer_id |-> sc[7],
      scores |-> sco, guessed |-> g, revealed_indices |-> g \ {3},
      kick_votes |-> kvo, kick_responses |-> kre] :
        st \in {"waiting", "running", "finished"},
        sc \in {<<0, 10, 120, None, NoWord, 0, None>>,
                <<1, MaxRounds, 60, 1, "sun", 1, 1>>,
                <<MaxRounds, 3, 120, 2, "sun", MaxStarts, 3>>},
        sco \in {[u \in Users |-> Absent], [u \in Users |-> IF u = 2 THEN Absent ELSE 0],
                 [u \in Users |-> 10 * u], [u \in Users |-> IF u = 3 THEN 110 ELSE Absent]},
        g \in SUBSET {2, 3},
        kvo \in {NoVotes, [u \in {2} |-> {1, 3}], [u \in {2, 3} |-> IF u = 2 THEN {} ELSE {2, 1}]},
        kre \in {NoVotes, [u \in {3} |-> {2, 1}]}}

\* process 1 holds any GameState, process 2 a new one; nothing is saved
CodecInit ==
    /\ \E s \in CodecStates :
          InitGame([p \in Procs |-> IF p = 1 THEN s ELSE GameState], {}, Quota(0, 0, 0, 0, 0))
    /\ sender = NoChat
    /\ NoDb

\* save_state_to_redis on process 1: json.dumps(state_payload(state)); the
\* payload holds strings, numbers, null, lists and dicts with string keys,
\* which json.loads gives back as they are (lines 314-325)
CodecSave ==
    /\ kv = <<>>
    /\ kv' = <<state_payload(cache[1])>>
    /\ UNCHANGED <<active, owner, lock, cache, fr, clock, quota>>
    /\ UNCH_LOG
    /\ UNCH_NET

\* load_state_from_redis on process 2 (lines 301-312)
CodecLoad ==
    /\ kv /= <<>>
    /\ cache' = [cache EXCEPT ![2] = load_state_from_redis(cache[2])]
    /\ UNCHANGED <<active, kv, owner, lock, fr, clock, quota>>
    /\ UNCH_LOG
    /\ UNCH_NET

CodecNext == CodecSave \/ CodecLoad

CodecSpec == CodecInit /\ [][CodecNext]_vars

\* --------------------------------------------------- check_chat_allowed alone
Min(a, b) == IF a <= b THEN a ELSE b

\* history.popleft() while the oldest entry is more than CHAT_WINDOW_SECONDS
\* old (lines 1375-1376)
RECURSIVE popleft(_, _)
popleft(h, now) ==
    IF h /= <<>> /\ now - h[1] > CHAT_WINDOW_SECONDS THEN popleft(Tail(h), now) ELSE h

\* check_chat_allowed with accepted chats that leave the penalty as it is
check_chat_allowed_without_relief(c) ==
    LET h == popleft(c.history, c.now)
        penalty == Min(MAX_CHAT_COOLDOWN, c.penalty + 2)
    IN  IF c.now < c.cooldown
        THEN [c EXCEPT !.ret = <<FALSE, Max(1, c.cooldown - c.now)>>]
        ELSE IF Len(h) >= CHAT_MAX_BURST
        THEN [c EXCEPT !.history = h, !.penalty = penalty,
                       !.cooldown = c.now + penalty, !.ret = <<FALSE, penalty>>]
        ELSE [c EXCEPT !.history = Append(h, c.now), !.ret = <<TRUE, 0>>]

\* check_chat_allowed (lines 1365-1388) on the sender's entries
check_chat_allowed(c) ==
    LET h == popleft(c.history, c.now)
        penalty == Min(MAX_CHAT_COOLDOWN, c.penalty + 2)
    IN  IF c.now < c.cooldown
        THEN [c EXCEPT !.ret = <<FALSE, Max(1, c.cooldown - c.now)>>]
        ELSE IF Len(h) >= CHAT_MAX_BURST
        THEN [c EXCEPT !.history = h, !.penalty = penalty,
                       !.cooldown = c.now + penalty, !.ret = <<FALSE, penalty>>]
        ELSE [c EXCEPT !.history = Append(h, c.now),
                       !.penalty = IF c.penalty > 0 THEN Max(0, c.penalty - 1) ELSE c.penalty,
                       !.ret = <<TRUE, 0>>]

\* a sender who has not chatted yet
ChatInit == InitWith({}, Quota(0, 0, 0, 0, 0))

\* handle_chat_guess of a sender who is not the drawer: check_chat_allowed,
\* then chat_cooldown to the sender alone or the chat sent to the group
\* (lines 615-620, 681-690)
ChatCall ==
    /\ LET c == check_chat_allowed(sender)
       IN  sender' = [c EXCEPT !.fanned = c.ret[1]]
    /\ UNCHANGED <<active, kv, owner, lock, cache, fr, clock, quota>>
    /\ UNCH_LOG
    /\ UNCHANGED <<conns, count, dtasks, ktasks, group, inbox, presence, marks, joins, dbvars, canvas, calls, wire, local_lock, entries>>

\* a second passes (time.time())
ChatTick ==
    /\ sender.now < MaxChatNow
    /\ sender' = [sender EXCEPT !.now = @ + 1]
    /\ UNCHANGED <<active, kv, owner, lock, cache, fr, clock, quota>>
    /\ UNCH_LOG
    /\ UNCHANGED <<conns, count, dtasks, ktasks, group, inbox, presence, marks, joins, dbvars, canvas, calls, wire, local_lock, entries>>

ChatNext == ChatCall \/ ChatTick

ChatSpec == ChatInit /\ [][ChatNext]_vars

\* ------------------------------------------------------------ timer owner
\* the timer-owner functions command by command, for two channels on two
\* processes; the key may run out of its TTL between any two commands.
\* claim_timer_owner and release_timer_owner are called inside state_lock
\* (lines 826, 1016, 1149, 1184), renew_timer_owner from the timer loop
\* without it (line 1110)
OwnerOps == {"claim", "renew", "release"}

UNCH_OWNER ==
    UNCHANGED <<active, kv, cache, fr, clock, quota, starts, incs, ends, awards, conns,
                count, dtasks, ktasks, group, inbox, presence, marks, joins, dbvars,
                canvas, sender, wire, local_lock, entries>>

Return(ch, ret) == [calls[ch] EXCEPT !.pc = "idle", !.ret = <<ret>>]

\* a channel enters one of the three functions
OwnerCall(ch, op, round_index, started_at, seconds) ==
    /\ calls[ch].pc = "idle"
    /\ calls[ch].served < OwnerCalls
    /\ op /= "renew" => lock = None
    /\ lock' = IF op = "renew" THEN lock ELSE ch
    /\ calls' = [calls EXCEPT ![ch] =
                    [NoCall EXCEPT !.pc = op, !.op = op, !.served = calls[ch].served + 1,
                                   !.round_index = IF op = "claim" THEN round_index ELSE 0,
                                   !.started_at = IF op = "claim" THEN started_at ELSE 0,
                                   !.seconds = IF op = "renew" THEN seconds ELSE 0]]
    /\ owner' = owner
    /\ UNCH_OWNER

\* claim_timer_owner: SET NX EX (lines 381-391)
ClaimSetNx(ch) ==
    /\ calls[ch].pc = "claim"
    /\ IF owner = <<>>
       THEN /\ owner' = owner_payload(ch, calls[ch].round_index, calls[ch].started_at)
            /\ calls' = [calls EXCEPT ![ch] = Return(ch, TRUE)]
            /\ lock' = None
       ELSE /\ calls' = [calls EXCEPT ![ch].pc = "claim_get", ![ch].before = owner]
            /\ UNCHANGED <<owner, lock>>
    /\ UNCH_OWNER

\* claim_timer_owner: GET and the comparison of the stored pair (lines 392-401)
ClaimGet(ch) ==
    /\ calls[ch].pc = "claim_get"
    /\ IF owner = <<>>
       THEN /\ calls' = [calls EXCEPT ![ch] = Return(ch, FALSE)]
            /\ lock' = None
       ELSE IF \/ owner[1].round_index /= calls[ch].round_index
               \/ owner[1].started_at /= calls[ch].started_at
       THEN /\ calls' = [calls EXCEPT ![ch].pc = "claim_set", ![ch].current = owner]
            /\ lock' = lock
       ELSE /\ calls' = [calls EXCEPT ![ch] =
                            [Return(ch, owner[1].channel = ch) EXCEPT !.current = owner]]
            /\ lock' = None
    /\ owner' = owner
    /\ UNCH_OWNER

\* claim_timer_owner: the unconditional SET EX (lines 402-407)
ClaimSet(ch) ==
    /\ calls[ch].pc = "claim_set"
    /\ owner' = owner_payload(ch, calls[ch].round_index, calls[ch].started_at)
    /\ calls' = [calls EXCEPT ![ch] = Return(ch, TRUE)]
    /\ lock' = None
    /\ UNCH_OWNER

\* renew_timer_owner: is_timer_owner, a GET (lines 417-418, 443-456)
RenewGet(ch) ==
    /\ calls[ch].pc = "renew"
    /\ calls' = [calls EXCEPT ![ch] =
                    IF is_timer_owner(ch)
                    THEN [@ EXCEPT !.pc = "renew_expire", !.current = owner]
                    ELSE [Return(ch, FALSE) EXCEPT !.current = owner]]
    /\ UNCHANGED <<owner, lock>>
    /\ UNCH_OWNER

\* renew_timer_owner: EXPIRE of the key, whatever it holds by now (lines 419-420)
RenewExpire(ch) ==
    /\ calls[ch].pc = "renew_expire"
    /\ owner' = IF owner = <<>> THEN owner
                ELSE [owner EXCEPT ![1].ttl =
                         Max(10, calls[ch].seconds + TIMER_OWNER_GRACE_SECONDS)]
    /\ calls' = [calls EXCEPT ![ch] = Return(ch, TRUE)]
    /\ lock' = lock
    /\ UNCH_OWNER

\* release_timer_owner: GET and the comparison of the channel (lines 428-437)
ReleaseGet(ch) ==
    /\ calls[ch].pc = "release"
    /\ IF is_timer_owner(ch)
       THEN /\ calls' = [calls EXCEPT ![ch].pc = "release_delete", ![ch].current = owner]
            /\ lock' = lock
       ELSE /\ calls' = [calls EXCEPT ![ch] = [Return(ch, FALSE) EXCEPT !.current = owner]]
            /\ lock' = None
    /\ owner' = owner
    /\ UNCH_OWNER

\* release_timer_owner: DELETE of the key (line 438)
ReleaseDelete(ch) ==
    /\ calls[ch].pc = "release_delete"
    /\ owner' = <<>>
    /\ calls' = [calls EXCEPT ![ch] = Return(ch, TRUE)]
    /\ lock' = None
    /\ UNCH_OWNER

\* the key's TTL runs out in the KV store
OwnerExpires ==
    /\ owner /= <<>>
    /\ owner' = <<>>
    /\ UNCHANGED <<lock, calls, wire, local_lock, entries>>
    /\ UNCH_OWNER

OwnerInit == InitWith({}, Quota(0, 0, 0, 0, 0))

OwnerNext ==
    \/ \E ch \in OwnerCallers :
          \/ \E op \in OwnerOps, r \in OwnerRounds, s \in OwnerStarts, sec \in OwnerSeconds :
                OwnerCall(ch, op, r, s, sec)
          \/ ClaimSetNx(ch) \/ ClaimGet(ch) \/ ClaimSet(ch)
          \/ RenewGet(ch) \/ RenewExpire(ch)
          \/ ReleaseGet(ch) \/ ReleaseDelete(ch)
    \/ OwnerExpires

OwnerSpec == OwnerInit /\ [][OwnerNext]_vars

\* ------------------------------------------------------------------ claims
\* the committed GameState: the payload stored under room:{code}:game_state
Committed == kv /= <<>>

\* the GameState a process gets by loading the committed document
CommittedState == apply_state_payload(GameState, kv[1])

\* C1: for every user, scores[user] of the committed GameState never
\* decreases from one commit to the next.
C1_ScoresNeverDecrease ==
    [][\A u \in Users :
          (kv /= <<>> /\ kv' /= <<>>)
              => ScoreGet(parse_scores(kv'[1].scores), u)
                     >= ScoreGet(parse_scores(kv[1].scores), u)]_vars

\* C2: whenever the committed state is running and no leave is still on its
\* way through maybe_pause_game, the drawer is an active member of the room.
C2_DrawerIsActive ==
    (/\ Committed
     /\ CommittedState.status = "running"
     /\ \A t \in Users : fr[t].pc \notin {"mp_ids", "mp_txn"})
        => CommittedState.drawer_id \in active

\* C3: a committed running state has a word, a drawer, started_at > 0 and a
\* drawer that is not in guessed; a committed waiting or finished state has
\* no word.
C3_CommittedShape ==
    Committed =>
        /\ CommittedState.status \in {"waiting", "running", "finished"}
        /\ CommittedState.status = "running" =>
              /\ CommittedState.word /= NoWord
              /\ CommittedState.drawer_id /= None
              /\ CommittedState.started_at > 0
              /\ CommittedState.drawer_id \notin CommittedState.guessed
        /\ CommittedState.status \in {"waiting", "finished"} => CommittedState.word = NoWord

\* C3 witness: a round has ended (committed as waiting, its round_end sent)
\* and the last round is committed as running.
C3_Witness ==
    /\ Committed
    /\ CommittedState.status = "running"
    /\ CommittedState.round_index = MaxRounds
    /\ \E s \in 1..MaxStarts : ends[s] > 0

\* C4: the committed round_index lies in 0..max_rounds, and a committed
\* finished state has round_index = max_rounds.
C4_FinishedAtMaxRounds ==
    Committed =>
        /\ CommittedState.round_index \in 0..MaxRounds
        /\ CommittedState.status = "finished" => CommittedState.round_index = MaxRounds

AllowedTransitions ==
    {<<"waiting", "running">>, <<"running", "waiting">>,
     <<"waiting", "finished">>, <<"running", "finished">>}

\* C5: every change of the committed status is waiting->running,
\* running->waiting, waiting->finished or running->finished.
C5_AllowedTransitions ==
    [][(kv /= <<>> /\ kv' /= <<>> /\ kv'[1].status /= kv[1].status)
          => <<kv[1].status, kv'[1].status>> \in AllowedTransitions]_vars

\* C6: at most one round_timer task, over all processes, has passed its
\* ownership test and is about to broadcast a timer envelope.
C6_OneTimerEmitting ==
    Cardinality({t \in Timers : fr[t].pc = "rt_emit"}) <= 1

\* C7: the round_start envelopes broadcast, plus the start_round calls that
\* have committed and are about to broadcast, are as many as the commits
\* that moved round_index up by one.
C7_OneStartPerIncrement ==
    starts + Cardinality({t \in Threads : fr[t].pc = "sr_send"}) = incs

\* C8: for each round (identified by its started_at) at most one round_end
\* envelope is broadcast.
C8_OneEndPerRound ==
    \A s \in 1..MaxStarts : ends[s] <= 1

\* C9: when handle_chat_guess leaves its locked section after a guess that
\* made |guessed| >= max(0, active_members - 1), it goes on to end_round.
C9_AllGuessedEndsRound ==
    [][\A t \in Users :
          (/\ fr[t].pc = "cg_ids"
           /\ fr'[t].pc /= "cg_ids"
           /\ fr[t].gcount >= Max(0, Cardinality(active) - 1))
              => fr'[t].pc = "er_txn"]_vars

\* C10: in every round the i-th award (i from 0) is max(20, 100 - 10*i)
\* points, and no user is awarded twice in the round.
C10_AwardsPerRound ==
    \A s \in 1..MaxStarts :
        /\ \A i \in 1..Len(awards[s]) : awards[s][i][2] = Max(20, 100 - 10 * (i - 1))
        /\ \A i, j \in 1..Len(awards[s]) : awards[s][i][1] = awards[s][j][1] => i = j

\* C11: when start_round commits a new round while at least 2 members are
\* active, its drawer is not the drawer of the round committed before it
\* (the committed last_drawer_id).
C11_DrawerDiffersFromLast ==
    [][(/\ kv /= <<>> /\ kv' /= <<>>
        /\ kv'[1].status = "running"
        /\ kv'[1].started_at /= kv[1].started_at
        /\ Cardinality(active) >= 2)
          => kv'[1].drawer_id /= kv[1].last_drawer_id]_vars

\* the kick dicts of the committed document after the step
VotesAfter == parse_votes(kv'[1].kick_votes)

ResponsesAfter == parse_votes(kv'[1].kick_responses)

\* max(1, ceil(0.8 * n)): the least k >= 1 with k >= 0.8 * n
Quorum(n) == CHOOSE k \in 1..(n + 1) : 10 * k >= 8 * n /\ (k = 1 \/ 10 * (k - 1) < 8 * n)

C13_TimeoutCancelsVote ==
    [][\A t \in KickTimers :
          (/\ fr[t].pc = "kt_load"
           /\ fr'[t].pc \in {"dead", "cancelled"}
           /\ kv /= <<>>
           /\ fr[t].target \in DOMAIN parse_votes(kv[1].kick_votes))
              => /\ fr[t].target \notin DOMAIN VotesAfter
                 /\ fr[t].target \notin DOMAIN ResponsesAfter]_vars

\* C14: after every step the committed kick_votes has at most one target
\* key, and a handle_kick_request that finds a vote in progress returns
\* without changing the committed state.
C14_OneVoteAtATime ==
    [][/\ kv' /= <<>> => Cardinality(DOMAIN VotesAfter) <= 1
       /\ \A t \in Sockets :
            (/\ fr[t].pc = "kr_lock"
             /\ fr'[t].pc /= "kr_lock"
             /\ kv /= <<>>
             /\ DOMAIN parse_votes(kv[1].kick_votes) /= {})
                => kv' = kv /\ fr'[t].pc = "idle"]_vars

\* C15: a member who has stopped being active is not left in a kick vote:
\* whenever an inactive user is the target of the committed vote, or is among
\* its voters or responses, the coroutine that made the user inactive is on
\* its way through cleanup_kick_votes or cancel_kick_vote.
C15_DepartureUpdatesVote ==
    Committed =>
        \A target \in DOMAIN CommittedState.kick_votes :
            \A u \in {target} \cup CommittedState.kick_votes[target] :
                u \notin active =>
                    \E t \in DepartThreads :
                        \/ fr[t].pc = "ck_txn" /\ fr[t].user = u
                        \/ fr[t].pc = "kc_txn" /\ fr[t].target = target

\* C16: whenever the committed state is running with fewer than 2 active
\* members, the coroutine that removed a member is on its way to
\* maybe_pause_game or inside it.
C16_PausedBelowTwo ==
    (/\ Committed
     /\ CommittedState.status = "running"
     /\ Cardinality(active) < 2)
        => \E t \in DepartThreads :
              fr[t].pc \in {"mp_ids", "mp_txn", "ck_txn", "kc_txn", "gr_presence"}

\* C17: set_member_inactive is run by grace tasks at most once per user.
C17_MarkedInactiveOnce ==
    \A u \in Users : marks[u] <= 1

\* C18: a grace task that runs set_member_inactive has not seen its user
\* reconnect, in any process, since it was created.
C18_NoSocketDuringGrace ==
    [][\A t \in Graces :
          (fr[t].pc = "gr_db" /\ fr'[t].pc = "ck_txn") => ~fr[t].seen]_vars

C20_AtMostMaxPlayers ==
    Cardinality(active) <= MAX_PLAYERS

\* C21: when no membership-changing request is under way, an active room
\* has empty_since set exactly when it has no active member.
C21_EmptySinceIffEmpty ==
    (\A w \in Workers : http[w].pc = "idle") =>
        \A r \in RoomIds :
            (Room[r] /= <<>> /\ Room[r][1].is_active) =>
                ((Room[r][1].empty_since /= None) <=> (RoomMember[r] = {}))

\* C23: the transaction of an accept call on a pending invite of the user,
\* with the room active, the friendship kept, the profile complete and the
\* room not full, makes the user an active member of the invite's room and
\* of no other room, sets the invite to accepted and cancels the user's
\* other pending invites, touching nothing else; otherwise it accepts
\* nothing. No step of a respond call changes an invite that is not pending
\* (the deletion of a stale room takes the room's invites with it).
C23_AcceptSwitchesRoom ==
    [][\A w \in Workers :
          /\ (http[w].pc = "rs_txn" /\ http'[w].pc /= "rs_txn") =>
                LET i == http[w].invite
                    u == http[w].user
                    row == RoomInvite[i]
                    good == /\ row /= <<>>
                            /\ row[1].to_user = u
                            /\ row[1].status = "pending"
                            /\ Room[row[1].room][1].is_active
                            /\ http'[w].facts = <<TRUE, TRUE>>
                            /\ \/ u \in RoomMember[row[1].room]
                               \/ Cardinality(RoomMember[row[1].room]) < MAX_PLAYERS
                IN  IF good
                    THEN /\ \A r \in RoomIds :
                              /\ (u \in RoomMember'[r]) = (r = row[1].room)
                              /\ RoomMember'[r] \ {u} = RoomMember[r] \ {u}
                         /\ RoomInvite'[i] = <<[row[1] EXCEPT !.status = "accepted"]>>
                         /\ \A j \in InviteIds \ {i} :
                              IF /\ RoomInvite[j] /= <<>>
                                 /\ RoomInvite[j][1].to_user = u
                                 /\ RoomInvite[j][1].status = "pending"
                              THEN RoomInvite'[j] =
                                      <<[RoomInvite[j][1] EXCEPT !.status = "cancelled"]>>
                              ELSE RoomInvite'[j] = RoomInvite[j]
                    ELSE /\ RoomMember' = RoomMember
                         /\ \A j \in InviteIds :
                              \/ RoomInvite'[j] = RoomInvite[j]
                              \/ RoomInvite'[j][1].status /= "accepted"
          /\ (/\ http[w].kind \in {"accept", "reject"}
              /\ http[w].pc /= "idle"
              /\ http'[w] /= http[w]) =>
                \A j \in InviteIds :
                    (RoomInvite[j] /= <<>> /\ RoomInvite[j][1].status /= "pending") =>
                        RoomInvite'[j] \in {RoomInvite[j], <<>>}]_vars

\* C24: the clear and round_start envelopes of a round are broadcast before
\* any guess_correct or round_end envelope of that round: while the thread
\* that committed a round has not sent them yet (it is between the save and
\* the sends of start_round), no thread broadcasts guess_correct or round_end
\* for the round with that started_at.
C24_RoundStartFirst ==
    [][\A t \in RoundThreads :
          (/\ fr[t].pc \in {"cg_ids", "er_send"}
           /\ fr'[t].pc /= fr[t].pc) =>
              \A s \in RoundThreads :
                  ~(fr[s].pc = "sr_send" /\ fr[s].stamp = fr[t].stamp)]_vars

\* C25: the round_end broadcast, the "Word was" chat line and the whole
\* break that follow the end of round k come before the round_start of round
\* k + 1: no thread broadcasts that round_start while the thread that ended
\* round k is still before the end of its break.
C25_BreakBeforeNextStart ==
    [][\A s \in RoundThreads :
          (/\ fr[s].pc = "sr_send"
           /\ fr'[s].pc /= "sr_send"
           /\ starts' = starts + 1) =>
              \A t \in RoundThreads :
                  ~(fr[t].pc = "er_send" /\ fr[s].rp[1].round = fr[t].cur + 1)]_vars

\* C26: a start_game message handled while the game is finished and at least
\* two members are active makes the game running: the step of start_round
\* that decides on the new round, taken for such a message, leaves the
\* process's GameState running.
C26_RestartFromFinished ==
    [][\A t \in Sockets :
          (/\ fr[t].pc = "sr_ids"
           /\ fr'[t].pc /= "sr_ids"
           /\ fr[t].msg.type = "start_game"
           /\ cache[Proc(t)].status = "finished"
           /\ Committed /\ kv[1].status = "finished"
           /\ Cardinality(active) >= 2) =>
              cache'[Proc(t)].status = "running"]_vars

\* C27: a socket admitted while the game is waiting and at least two members
\* are active attempts to start a round, whatever round_index is: when the
\* load of maybe_start_game finds such a state, and no other thread is on its
\* way to start a round, the connection goes on to start_round.
C27_AdmissionStartsRound ==
    [][\A t \in Sockets :
          (/\ fr[t].pc = "cn_msg"
           /\ fr'[t].pc \notin {"cn_msg", "closed", "dead"}
           /\ cache'[Proc(t)].status = "waiting"
           /\ Committed /\ kv[1].status = "waiting"
           /\ Cardinality(active) >= 2
           /\ \A s \in RoundThreads \ {t} :
                 fr[s].pc \notin {"ms_ids", "sr_lock", "sr_ids", "sr_save", "er_send"}) =>
              fr'[t].pc = "ms_ids"]_vars

\* the message thread t is handling is out of state for GameState c: a draw
\* or clear of a user who is not the drawer of a running round, a start_game
\* while the round is running
OutOfState(t, c) ==
    \/ /\ fr[t].msg.type \in {"draw", "clear"}
       /\ c.status /= "running" \/ c.drawer_id /= fr[t].user
    \/ /\ fr[t].msg.type = "start_game"
       /\ c.status = "running"

\* C28: the handling of an out-of-state command changes nothing: the step
\* that loads the state and finds the command out of state leaves the
\* committed state, the draw history and the envelopes sent as they are, and
\* leaves alone the GameState that a coroutine of the same process is
\* changing under the room lock.
C28_OutOfStateNoOp ==
    [][\A t \in Sockets :
          (/\ fr[t].pc = "rj_load"
           /\ fr'[t].pc /= "rj_load"
           /\ fr'[t] /= fr[t]
           /\ OutOfState(t, cache'[Proc(t)])) =>
              /\ fr'[t].pc = "idle"
              /\ kv' = kv
              /\ canvas' = canvas
              /\ UNCHANGED <<starts, ends, awards, presence, inbox>>
              /\ (lock \in Threads \ {t} /\ Proc(lock) = Proc(t)) =>
                    cache'[Proc(t)] = cache[Proc(t)]]_vars

\* C29: loading the saved document of a GameState gives a GameState equal
\* to it on every persisted field: the scores and the kick dicts have their
\* integer keys again, guessed, revealed_indices and the voters are sets of
\* integers again.
C29_RoundTrip ==
    [][(kv /= <<>> /\ cache' /= cache) => cache'[2] = cache[1]]_vars

\* a state with scores, guesses and a kick vote has been saved and loaded
C29_Witness ==
    /\ kv /= <<>>
    /\ cache[2] = cache[1]
    /\ cache[1].status = "running"
    /\ cache[1].scores[3] = 110
    /\ cache[1].guessed = {2, 3}
    /\ cache[1].kick_votes = [u \in {2} |-> {1, 3}]
    /\ cache[1].kick_responses = [u \in {3} |-> {2, 1}]

\* the sender's accepted chats of the last CHAT_WINDOW_SECONDS seconds
RecentChats == {i \in 1..Len(sender.history) : sender.now - sender.history[i] <= CHAT_WINDOW_SECONDS}

\* C30: check_chat_allowed accepts a chat exactly when the sender is not in
\* cooldown and has fewer than CHAT_MAX_BURST accepted chats in the last
\* CHAT_WINDOW_SECONDS seconds. On a burst violation the penalty becomes
\* min(MAX_CHAT_COOLDOWN, penalty + 2), the cooldown now + penalty, the
\* penalty is returned (2 for a first violation) and the chat is not sent to
\* the group. An accepted chat lowers the penalty by 1, not below 0, and is
\* counted. The penalty stays within 0..MAX_CHAT_COOLDOWN.
C30_ChatRateLimit ==
    [][sender'.now = sender.now =>
          LET cool == sender.now < sender.cooldown
              burst == Cardinality(RecentChats) >= CHAT_MAX_BURST
          IN  /\ sender'.ret[1] = (~cool /\ ~burst)
              /\ (~cool /\ burst) =>
                    /\ sender'.penalty = Min(MAX_CHAT_COOLDOWN, sender.penalty + 2)
                    /\ sender'.cooldown = sender.now + sender'.penalty
                    /\ sender'.ret = <<FALSE, sender'.penalty>>
                    /\ sender.penalty = 0 => sender'.ret[2] = 2
                    /\ ~sender'.fanned
              /\ sender'.ret[1] =>
                    /\ sender'.penalty = Max(0, sender.penalty - 1)
                    /\ sender'.history = Append(popleft(sender.history, sender.now), sender.now)
                    /\ sender'.cooldown = sender.cooldown
              /\ cool => (~sender'.fanned /\ sender'.penalty = sender.penalty
                                    /\ sender'.cooldown = sender.cooldown)
              /\ sender'.penalty \in 0..MAX_CHAT_COOLDOWN]_vars

\* after accepted chats have lowered a penalty, a fourth chat within the
\* window has been refused with a penalty of 3 and a cooldown of 3 seconds
C30_Witness ==
    /\ sender.ret = <<FALSE, 3>>
    /\ Len(sender.history) = CHAT_MAX_BURST
    /\ sender.cooldown = sender.now + 3

\* the time since which room r counts as empty: its marker, or now when the
\* marker is missing
EmptySince(r) ==
    IF Room[r][1].empty_since = None THEN today ELSE Room[r][1].empty_since

\* C22: cleanup_inactive_rooms(empty_minutes=m) deletes exactly the active
\* rooms without an active member that have been empty for at least m
\* minutes (the configured minutes when m is None, 0 when m is negative),
\* leaves every other room with its members, and returns the number of
\* rooms it deleted.
C22_CleanupDeletesStale ==
    [][\A m \in Minutes :
          (http'[1].minutes = m /\ http'[1].ret /= <<>> /\ today' = today) =>
              LET keep == IF m = <<>> THEN EMPTY_ROOM_DELETE_MINUTES
                          ELSE IF m[1] < 0 THEN 0 ELSE m[1]
                  gone == {r \in RoomIds : Room[r] /= <<>> /\ Room'[r] = <<>>}
              IN  /\ gone = {r \in RoomIds :
                                /\ Room[r] /= <<>>
                                /\ Room[r][1].is_active
                                /\ RoomMember[r] = {}
                                /\ today - EmptySince(r) >= keep}
                  /\ http'[1].ret = <<Cardinality(gone)>>
                  /\ \A r \in RoomIds \ gone :
                        /\ RoomMember'[r] = RoomMember[r]
                        /\ (Room[r] = <<>>) = (Room'[r] = <<>>)
                        /\ Room[r] /= <<>> =>
                              Room'[r][1].is_active = Room[r][1].is_active]_vars

\* a call with a positive number of minutes has deleted one room and kept
\* another that is empty, too
C22_Witness ==
    /\ http[1].ret = <<1>>
    /\ http[1].minutes = <<TickMinutes>>
    /\ \E r \in RoomIds : Room[r] /= <<>> /\ Room[r][1].is_active /\ RoomMember[r] = {}

\* C31: revealed_indices of the committed GameState holds only positions of
\* the current word whose character is not a space; within a round its size
\* never decreases; a hint reveal of the round timer adds exactly one new
\* index while an unrevealed position that is not a space exists, and the
\* masked word then shows as many letters as there are revealed indices.
NonSpace(word) ==
    {i \in 1..Len(WordChars(word)) : WordChars(word)[i] /= " "}

Shown(masked) ==
    Cardinality({j \in 1..Len(masked) : masked[j] \notin {" ", "_"}})

C31_RevealedIndices ==
    [][Committed /\ Committed' =>
          LET old == kv[1]
              new == kv'[1]
          IN  /\ Range(new.revealed_indices) \subseteq NonSpace(new.word)
              /\ (/\ old.status = "running" /\ new.status = "running"
                  /\ old.round_index = new.round_index
                  /\ old.started_at = new.started_at)
                    => Len(new.revealed_indices) >= Len(old.revealed_indices)
              /\ \A t \in Timers :
                    (/\ fr[t].pc = "rt_hint" /\ fr' = [fr EXCEPT ![t] = Goto(t, "rt_load")]
                     /\ old.status = "running" /\ old.word /= NoWord
                     /\ HintCandidates(CommittedState) /= {})
                    => /\ Range(old.revealed_indices) \subseteq Range(new.revealed_indices)
                       /\ Len(new.revealed_indices) = Len(old.revealed_indices) + 1
                       /\ Shown(mask_word(new.word, Range(new.revealed_indices)))
                              = Len(new.revealed_indices)]_vars

\* C32: claim_timer_owner(round_index, started_at) returns true and leaves
\* the caller's channel recorded as owner when the key is absent or the stored
\* (round_index, started_at) differs from the requested pair; when the stored
\* pair matches it changes nothing and returns true iff the stored channel is
\* the caller's.
SamePair(key, call) ==
    key[1].round_index = call.round_index /\ key[1].started_at = call.started_at

C32_ClaimTimerOwner ==
    [][\A ch \in OwnerCallers :
          (calls[ch].op = "claim" /\ calls[ch].pc /= "idle" /\ calls'[ch].pc = "idle")
          => LET stored == IF calls[ch].pc = "claim" THEN owner ELSE calls[ch].before
             IN  IF stored = <<>> \/ ~SamePair(stored, calls[ch])
                 THEN /\ calls'[ch].ret = <<TRUE>>
                      /\ owner' /= <<>>
                      /\ owner'[1].channel = ch
                      /\ SamePair(owner', calls[ch])
                 ELSE /\ calls'[ch].ret = <<stored[1].channel = ch>>
                      /\ owner' = owner]_vars

\* C35: release_timer_owner deletes the timer_owner key, and
\* renew_timer_owner extends its TTL, only when the key records the caller's
\* channel at the moment of the DELETE or EXPIRE: a key that records another
\* channel is left as it is by both.
C35_OwnWriteOnly ==
    [][\A ch \in OwnerCallers :
          (/\ calls[ch].pc \in {"renew_expire", "release_delete"}
           /\ calls'[ch].pc = "idle"
           /\ owner /= <<>>
           /\ owner[1].channel /= ch)
          => owner' = owner]_vars

\* C33: the plaintext word of a running round reaches a client only in a
\* round_secret envelope and only on a socket of that round's drawer; the
\* round_start and game_state envelopes carry no word, and the masked word of
\* round_start shows no letter.
C33_WordOnlyToDrawer ==
    \A s \in Sockets : \A e \in wire[s] :
        /\ "word" \in DOMAIN e => e.type = "round_secret"
        /\ (/\ e.type = "round_secret"
            /\ Committed
            /\ kv[1].status = "running"
            /\ kv[1].started_at = e.stamp)
              => /\ e.word = kv[1].word
                 /\ UserOf(s) = kv[1].drawer_id
        /\ e.type = "round_start" => Shown(e.masked_word) = 0

\* a round is running: its drawer's socket has been handed round_start and
\* round_secret by start_round and the other user's socket round_start; in
\* an earlier round that user was the drawer and its socket was handed
\* game_state and round_secret by send_game_state
C33_Witness ==
    /\ Committed
    /\ kv[1].status = "running"
    /\ \E s1, s2 \in Sockets :
          /\ UserOf(s1) = kv[1].drawer_id
          /\ UserOf(s2) /= kv[1].drawer_id
          /\ round_secret(kv[1].word, kv[1].started_at) \in wire[s1]
          /\ \E e \in wire[s1] : e.type = "round_start" /\ e.stamp = kv[1].started_at
          /\ \E e \in wire[s2] : e.type = "round_start" /\ e.stamp = kv[1].started_at
          /\ \E e, g \in wire[s2] :
                /\ e.type = "round_secret"
                /\ g.type = "game_state"
                /\ "masked_word" \in DOMAIN g
                /\ g.stamp = e.stamp
                /\ e.stamp < kv[1].started_at

\* C38: handle_chat_guess decides to end the round with reason all_guessed
\* (line 652, the round_end of end_round follows from this test alone) only
\* when every active member other than the drawer of the saved round is in
\* guessed.
C38_AllGuessed ==
    [][\A t \in Sockets :
          (/\ fr[t].pc = "cg_ids"
           /\ fr'[t].pc = "er_txn"
           /\ fr'[t].reason = "all_guessed"
           /\ Committed)
          => (active \ {CommittedState.drawer_id}) \subseteq CommittedState.guessed]_vars

\* C40: while the committed round is running, the chat envelope that
\* handle_chat_guess sends to the room group does not carry a message equal
\* to the secret word of that round, compared without case.
C40_NoWordInChat ==
    [][\A t \in Sockets :
          (/\ fr[t].pc = "cg_chat"
           /\ fr'[t].pc /= "cg_chat"
           /\ wire' /= wire
           /\ Committed
           /\ kv[1].status = "running"
           /\ kv[1].word /= NoWord)
          => lower(fr[t].msg.message) /= lower(kv[1].word)]_vars

\* C39: for every user whose sockets are at rest (none is being connected,
\* closed or handled, none has a message waiting, no kick of the user is in
\* progress), the connection counter equals the number of the user's
\* admitted sockets that are open.
Quiet(u) ==
    /\ \A s \in SocketsOf(u, Sockets) :
          fr[s].pc \in {"closed", "gone", "idle"} /\ inbox[s] = <<>>
    /\ \A t \in DepartThreads : fr[t].pc = "ku_db" => fr[t].target /= u

OpenSockets(u) == {s \in SocketsOf(u, Sockets) : fr[s].pc = "idle" /\ fr[s].user /= None}

C39_ConnectionCount ==
    \A u \in Users : Quiet(u) => count[u] = Cardinality(OpenSockets(u))

\* ------------------------------------------------------------ state_lock
UNCH_ENTRY ==
    UNCHANGED <<active, owner, fr, clock, quota, starts, incs, ends, awards, conns,
                dtasks, ktasks, group, inbox, presence, marks, joins, dbvars,
                canvas, sender, calls, wire>>

\* leaving "async with local_lock" without releasing the lock
exit_local_lock_held(held, p) == held

\* leaving "async with local_lock", by return or by exception (line 281)
exit_local_lock(held, p) == [held EXCEPT ![p] = None]

\* a consumer calls state_lock and waits for the local lock (lines 279-281)
EnterLock(c) ==
    /\ entries[c].pc = "idle"
    /\ entries[c].served < LockCalls
    /\ entries' = [entries EXCEPT ![c] = [@ EXCEPT !.pc = "local", !.raised = FALSE, !.ran = FALSE]]
    /\ UNCHANGED <<kv, cache, count, lock, local_lock>>
    /\ UNCH_ENTRY

\* the local lock is free and taken; the Redis lock is asked for
\* (lines 281-289)
TakeLocal(c) ==
    /\ entries[c].pc = "local"
    /\ local_lock[ProcOf(c)] = None
    /\ local_lock' = [local_lock EXCEPT ![ProcOf(c)] = c]
    /\ entries' = [entries EXCEPT ![c].pc = "redis"]
    /\ UNCHANGED <<kv, cache, count, lock>>
    /\ UNCH_ENTRY

\* redis_lock.acquire succeeds (line 289)
AcquireRedis(c) ==
    /\ entries[c].pc = "redis"
    /\ lock = None
    /\ lock' = c
    /\ entries' = [entries EXCEPT ![c].pc = "body"]
    /\ UNCHANGED <<kv, cache, count, local_lock>>
    /\ UNCH_ENTRY

\* the Redis lock stays taken for REDIS_LOCK_WAIT_SECONDS: acquire returns
\* False, RuntimeError leaves the "async with" (lines 289-291)
AcquireFails(c) ==
    /\ entries[c].pc = "redis"
    /\ lock /= None
    /\ local_lock' = exit_local_lock(local_lock, ProcOf(c))
    /\ entries' = [entries EXCEPT ![c] = [@ EXCEPT !.pc = "idle", !.raised = TRUE,
                                                   !.served = @ + 1]]
    /\ UNCHANGED <<kv, cache, count, lock>>
    /\ UNCH_ENTRY

\* the body under the lock, here the one of connect: load, the user's
\* score entry, save, the connection counter (lines 488-496)
LockedBody(c) ==
    /\ entries[c].pc = "body"
    /\ LET st == load_state_from_redis(cache[ProcOf(c)])
           s2 == [st EXCEPT !.scores[UserOf(c)] = IF @ = Absent THEN 0 ELSE @]
       IN  /\ cache' = [cache EXCEPT ![ProcOf(c)] = s2]
           /\ kv' = <<state_payload(s2)>>
    /\ count' = [count EXCEPT ![UserOf(c)] = @ + 1]
    /\ entries' = [entries EXCEPT ![c] = [@ EXCEPT !.pc = "release", !.ran = TRUE]]
    /\ UNCHANGED <<lock, local_lock>>
    /\ UNCH_ENTRY

\* redis_lock.release(): the key is deleted if it still holds this
\* consumer's token, otherwise release raises and the error is dropped
\* (lines 294-299)
ReleaseRedis(c) ==
    /\ entries[c].pc = "release"
    /\ lock' = IF lock = c THEN None ELSE lock
    /\ entries' = [entries EXCEPT ![c].pc = "exit"]
    /\ UNCHANGED <<kv, cache, count, local_lock>>
    /\ UNCH_ENTRY

\* the "async with local_lock" is left (line 281)
ExitLocal(c) ==
    /\ entries[c].pc = "exit"
    /\ local_lock' = exit_local_lock(local_lock, ProcOf(c))
    /\ entries' = [entries EXCEPT ![c] = [@ EXCEPT !.pc = "idle", !.served = @ + 1]]
    /\ UNCHANGED <<kv, cache, count, lock>>
    /\ UNCH_ENTRY

\* the Redis lock key runs out (timeout = REDIS_LOCK_TIMEOUT_SECONDS) while
\* its holder is still inside state_lock
RedisLockExpires ==
    /\ lock /= None
    /\ lock' = None
    /\ UNCHANGED <<kv, cache, count, local_lock, entries>>
    /\ UNCH_ENTRY

LockInit == InitWith(Users, Quota(0, 0, 0, 0, 0))

LockNext ==
    \/ \E c \in LockCallers : EnterLock(c)
    \/ \E c \in LockCallers : TakeLocal(c)
    \/ \E c \in LockCallers : AcquireRedis(c)
    \/ \E c \in LockCallers : AcquireFails(c)
    \/ \E c \in LockCallers : LockedBody(c)
    \/ \E c \in LockCallers : ReleaseRedis(c)
    \/ \E c \in LockCallers : ExitLocal(c)
    \/ RedisLockExpires

LockSpec == LockInit /\ [][LockNext]_vars

\* d.get(k, set())
GetSet(d, k) == IF k \in DOMAIN d THEN d[k] ELSE {}

\* the kick_responses of the committed document before the step
ResponsesBefore == parse_votes(kv[1].kick_responses)

\* C37: in every committed state, for every target of a vote, kick_votes is
\* a subset of kick_responses and the target is in neither; a kick_vote of
\* a user who is already in the committed kick_responses of the target, of
\* the target, or of a user who is not an active member leaves the committed
\* state as it is.
C37_Ballots ==
    [][/\ Committed' =>
            \A g \in DOMAIN VotesAfter \cup DOMAIN ResponsesAfter :
                /\ GetSet(VotesAfter, g) \subseteq GetSet(ResponsesAfter, g)
                /\ g \notin GetSet(VotesAfter, g)
                /\ g \notin GetSet(ResponsesAfter, g)
       /\ \A t \in Sockets :
            (/\ fr[t].pc = "kv_ids"
             /\ fr'[t] /= fr[t]
             /\ Committed
             /\ \/ fr[t].user \in GetSet(ResponsesBefore, fr[t].target)
                \/ fr[t].user = fr[t].target
                \/ fr[t].user \notin active)
              => kv' = kv]_vars

\* C36: state_lock takes the Redis lock only while it holds the local lock
\* of its process and gives up the local lock only when it no longer holds
\* the Redis lock; a pass that finds the Redis lock taken ends in
\* RuntimeError without having run its body, with the stored state, the
\* process's GameState and the counters as they were and the local lock of
\* its process free.
C36_StateLock ==
    [][\A c \in LockCallers :
          LET p == ProcOf(c) IN
          /\ (lock' = c /\ lock /= c) => local_lock[p] = c /\ local_lock'[p] = c
          /\ (local_lock[p] = c /\ local_lock'[p] /= c) => lock /= c /\ lock' /= c
          /\ (entries[c].pc = "redis" /\ lock /= None /\ entries'[c] /= entries[c])
                => /\ entries'[c].raised
                   /\ entries'[c].pc = "idle"
                   /\ ~entries'[c].ran
                   /\ kv' = kv /\ cache' = cache /\ count' = count
                   /\ local_lock'[p] = None]_vars

\* C36 witness: consumer 1 ended its first pass in RuntimeError and
\* consumer 2 of the same process, in its first pass, is in the body with
\* both locks.
C36_Witness ==
    /\ entries[1].raised /\ entries[1].pc = "idle" /\ entries[1].served = 1
    /\ entries[2].pc = "body" /\ entries[2].served = 0
    /\ local_lock[1] = 2
    /\ lock = 2

\* C34: under fairness, with two members who stay active, a running round
\* leads to the game being finished with round_index = max_rounds.
C34_GameFinishes ==
    (Committed /\ kv[1].status = "running")
        ~> (Committed /\ kv[1].status = "finished"
                      /\ kv[1].round_index = kv[1].max_rounds)

====
